---- MODULE Spec2Model ----
(***************************************************************************)
(* Rules engine for building permit validation (ai-service/app/            *)
(* rules_engine.py) and the violation scorer layered above it             *)
(* (ai-service/app/analysis_service.py, detect_violations).                *)
(*                                                                         *)
(* Encoding of Python values                                               *)
(*  - a dict is a function with a string domain; {} and [] are << >>;      *)
(*  - a list is a sequence;                                                *)
(*  - every number is held in hundredths (3.5 is 350, 4 is 400), so that   *)
(*    the decimal thresholds of the rules are integers; a quotient or a    *)
(*    product is an exact Fraction, rounded as round() does;               *)
(*  - None is NoneValue; calling .get on it raises AttributeError;         *)
(*  - an f-string message is the tuple <<template, value, ...>> of its     *)
(*    template (ASCII) and the values it interpolates; a value formatted   *)
(*    with :.1f, :.2f or :.4f is held in tenths, hundredths or             *)
(*    ten-thousandths;                                                     *)
(*  - an evidence key built by an f-string is the concatenated string.     *)
(***************************************************************************)
EXTENDS Integers, Sequences, FiniteSets, TLC

VARIABLES rules, dataset, op, arg, response, history

vars == <<rules, dataset, op, arg, response, history>>

----------------------------------------------------------------------------
(* Python values *)

Empty == << >>

NoneValue == [NoneType |-> TRUE]

IsDict(v) == "NoneType" \notin DOMAIN v

\* dict.get(k, default)
Get(d, k, default) == IF k \in DOMAIN d THEN d[k] ELSE default

\* d[k] = v
Put(d, k, v) == [y \in DOMAIN d \cup {k} |-> IF y = k THEN v ELSE d[y]]

\* a faulty dict: the assignments are dropped
Dict_dropped(pairs) == Empty

\* a dict literal followed by assignments, as the sequence of its <<key, value>> pairs
RECURSIVE Dict(_)
Dict(pairs) ==
    IF pairs = << >> THEN Empty
    ELSE Put(Dict(SubSeq(pairs, 1, Len(pairs) - 1)),
             pairs[Len(pairs)][1], pairs[Len(pairs)][2])

\* the concatenation of F(i, s[i]) over the items of a list, in list order
RECURSIVE FlatMap(_, _, _)
FlatMap(F(_, _), s, n) ==
    IF n = 0 THEN << >> ELSE FlatMap(F, s, n - 1) \o F(n, s[n])

\* what a for loop over enumerate(s) appends, in order
ForEach(F(_, _), s) == FlatMap(F, s, Len(s))

When(cond, items) == IF cond THEN items ELSE << >>

Max(a, b) == IF a >= b THEN a ELSE b

Min(a, b) == IF a <= b THEN a ELSE b

Abs(a) == IF a >= 0 THEN a ELSE -a

\* round(n / d, k) for d > 0, as an integer number of units 10^-k of n / d's unit:
\* the caller scales n; ties go to the even neighbour
Round(n, d) ==
    LET q == n \div d
        r == n % d
    IN  IF 2 * r < d THEN q
        ELSE IF 2 * r > d THEN q + 1
        ELSE IF q % 2 = 0 THEN q ELSE q + 1

\* min(s) of a non-empty set of numbers
MinOf(s) == CHOOSE m \in s : \A x \in s : m <= x

\* the values of a dict
Values(d) == {d[k] : k \in DOMAIN d}

RECURSIVE Gcd(_, _)
Gcd(a, b) == IF b = 0 THEN a ELSE Gcd(b, a % b)

\* the float n / d for d # 0, as the fraction <<numerator, denominator>> in lowest
\* terms with a positive denominator, so that equal values are equal tuples
Fraction(n, d) ==
    LET g == Gcd(Abs(n), Abs(d))
    IN  IF d > 0 THEN <<n \div g, d \div g>> ELSE <<(-n) \div g, (-d) \div g>>

\* a number of a dataset, held in hundredths, as a Fraction
Num(v) == Fraction(v, 100)

\* a * b on Fractions, reduced before multiplying
QMul(a, b) ==
    LET g1 == Gcd(Abs(a[1]), b[2])
        g2 == Gcd(Abs(b[1]), a[2])
    IN  Fraction((a[1] \div g1) * (b[1] \div g2), (a[2] \div g2) * (b[2] \div g1))

\* a / b on Fractions, b # 0
QDiv(a, b) == QMul(a, IF b[1] > 0 THEN <<b[2], b[1]>> ELSE <<-b[2], -b[1]>>)

\* a - b on Fractions
QSub(a, b) ==
    LET g == Gcd(a[2], b[2])
    IN  Fraction(a[1] * (b[2] \div g) - b[1] * (a[2] \div g), (a[2] \div g) * b[2])

\* a < b on Fractions
QLess(a, b) ==
    LET g == Gcd(a[2], b[2])
    IN  a[1] * (b[2] \div g) < b[1] * (a[2] \div g)

\* round(a, k) and f"{a:.kf}" of a Fraction, as a number of units 1 / scale, scale = 10^k
QRound(a, scale) ==
    LET scaled == QMul(a, <<scale, 1>>)
    IN  Round(scaled[1], scaled[2])

\* int(a) of a Fraction: truncation toward zero
QInt(a) == IF a[1] >= 0 THEN a[1] \div a[2] ELSE -((-a[1]) \div a[2])

\* the exception every rule raises when it calls .get on None
AttributeError == [exception |-> "'NoneType' object has no attribute 'get'"]

IsException(r) == "exception" \in DOMAIN r

----------------------------------------------------------------------------
(* Enumerations and records *)

RuleSeverity ==
    [CRITICAL |-> "critical", HIGH |-> "high", MEDIUM |-> "medium", LOW |-> "low"]

\* the members in definition order, as iterating the Enum yields them
RuleCategoryMembers ==
    <<"STRUCTURAL", "ZONING", "SAFETY", "ACCESSIBILITY", "ENVIRONMENTAL">>

RuleCategory ==
    [STRUCTURAL |-> "structural", ZONING |-> "zoning", SAFETY |-> "safety",
     ACCESSIBILITY |-> "accessibility", ENVIRONMENTAL |-> "environmental"]

\* a faulty constructor: the passed flag is not the one computed by the rule
ValidationResult_passed(rule_id, passed, violations, warnings, evidence, severity) ==
    [rule_id |-> rule_id, passed |-> TRUE, violations |-> violations,
     warnings |-> warnings, evidence |-> evidence, severity |-> severity]

ValidationResult(rule_id, passed, violations, warnings, evidence, severity) ==
    [rule_id |-> rule_id, passed |-> passed, violations |-> violations,
     warnings |-> warnings, evidence |-> evidence, severity |-> severity]

ValidationResult_to_dict(self) ==
    [rule_id |-> self.rule_id, passed |-> self.passed,
     violations |-> self.violations, warnings |-> self.warnings,
     evidence |-> self.evidence, severity |-> RuleSeverity[self.severity]]

BuildingRule(cls, rule_id, name_he, name_en, category, severity) ==
    [cls |-> cls, rule_id |-> rule_id, name_he |-> name_he, name_en |-> name_en,
     category |-> category, severity |-> severity]

BuildingRule_to_dict(self) ==
    [rule_id |-> self.rule_id, name_he |-> self.name_he, name_en |-> self.name_en,
     category |-> RuleCategory[self.category],
     severity |-> RuleSeverity[self.severity]]

\* item.get("id", f"{prefix}-{i+1}"); n is the 1-based position
ItemId(item, prefix, n) == Get(item, "id", prefix \o "-" \o ToString(n))

----------------------------------------------------------------------------
(* Structural rules *)

StrLoad001 ==
    BuildingRule("StrLoad001", "STR-LOAD-001", "אימות עומסי תכנון",
                 "Design loads verification", "STRUCTURAL", "CRITICAL")

\* a faulty rule: the section is subscripted, data["structural"], and the lookup raises
StrLoad001_validate_subscript(self, data) == [exception |-> "'structural'"]

StrLoad001_validate(self, data) ==
    LET structural_data == Get(data, "structural", Empty)
        building_data == Get(data, "building", Empty)
        location_data == Get(data, "location", Empty)
        dead_load == Get(structural_data, "dead_load_kn_m2", 0)
        live_load == Get(structural_data, "live_load_kn_m2", 0)
        building_use == Get(building_data, "use_type", "residential")
        min_live_loads == [residential |-> 200, office |-> 250, commercial |-> 400,
                           storage |-> 500, assembly |-> 500]
        min_live_load == Get(min_live_loads, building_use, 200)
        wind_load == Get(structural_data, "wind_load_kn_m2", 0)
        seismic_zone == Get(location_data, "seismic_zone", "")
        seismic_coefficient == Get(structural_data, "seismic_coefficient", 0)
        violations ==
            When(dead_load < 350,
                 << <<"Dead load {} kN/m2 is below minimum 3.5 kN/m2 (SI 413)", dead_load>> >>)
            \o When(live_load < min_live_load,
                 << <<"Live load {} kN/m2 is below minimum {} kN/m2 for {} use (SI 413 Table 2)",
                      live_load, min_live_load, building_use>> >>)
            \o When(wind_load < 60,
                 << <<"Wind load {} kN/m2 is below minimum 0.6 kN/m2 (SI 413)", wind_load>> >>)
            \o When(seismic_coefficient < 10,
                 << <<"Seismic coefficient {} is below minimum 0.1 (SI 413)",
                      seismic_coefficient>> >>)
        warnings ==
            When(~(dead_load < 350) /\ dead_load < 400,
                 << <<"Dead load {} kN/m2 is low, verify calculations", dead_load>> >>)
        evidence ==
            Dict(<< <<"dead_load_kn_m2", dead_load>>,
                    <<"live_load_kn_m2", live_load>>,
                    <<"building_use", building_use>>,
                    <<"wind_load_kn_m2", wind_load>>,
                    <<"seismic_zone", seismic_zone>>,
                    <<"seismic_coefficient", seismic_coefficient>> >>)
        passed == Len(violations) = 0
    IN  IF ~IsDict(data) \/ ~IsDict(structural_data) \/ ~IsDict(building_data)
           \/ ~IsDict(location_data)
        THEN AttributeError
        ELSE ValidationResult(self.rule_id, passed, violations, warnings, evidence,
                              self.severity)

StrFound002 ==
    BuildingRule("StrFound002", "STR-FOUND-002", "עומק יסוד מינימלי",
                 "Foundation depth minimum", "STRUCTURAL", "CRITICAL")

StrFound002_validate(self, data) ==
    LET structural_data == Get(data, "structural", Empty)
        foundation_data == Get(structural_data, "foundation", Empty)
        foundation_depth == Get(foundation_data, "depth_m", 0)
        soil_type == Get(foundation_data, "soil_type", "")
        min_depths_by_soil == [rock |-> 80, gravel |-> 100, sand |-> 120,
                               clay |-> 150, organic |-> 200]
        known_soil == soil_type \in DOMAIN min_depths_by_soil
        min_depth == min_depths_by_soil[soil_type]
        bearing_capacity == Get(foundation_data, "bearing_capacity_kn_m2", 0)
        violations ==
            When(foundation_depth < 100,
                 << <<"Foundation depth {}m is below minimum 1.0m (SI 466 Section 4.2)",
                      foundation_depth>> >>)
            \o When(known_soil /\ foundation_depth < min_depth,
                 << <<"Foundation depth {}m is below minimum {}m for {} soil (SI 466)",
                      foundation_depth, min_depth, soil_type>> >>)
            \o When(bearing_capacity < 10000,
                 << <<"Bearing capacity {} kN/m2 is below minimum 100 kN/m2 (SI 466)",
                      bearing_capacity>> >>)
        warnings ==
            When(~(foundation_depth < 100) /\ foundation_depth < 120,
                 << <<"Foundation depth {}m is minimal, consider deeper foundation",
                      foundation_depth>> >>)
            \o When(~known_soil,
                 << <<"Soil type '{}' not recognized, verify foundation depth", soil_type>> >>)
        evidence ==
            Dict(<< <<"foundation_depth_m", foundation_depth>>,
                    <<"soil_type", soil_type>> >>
                 \o When(known_soil, << <<"min_depth_for_soil", min_depth>> >>)
                 \o << <<"bearing_capacity_kn_m2", bearing_capacity>> >>)
        passed == Len(violations) = 0
    IN  IF ~IsDict(data) \/ ~IsDict(structural_data) \/ ~IsDict(foundation_data)
        THEN AttributeError
        ELSE ValidationResult(self.rule_id, passed, violations, warnings, evidence,
                              self.severity)

StrColumn003 ==
    BuildingRule("StrColumn003", "STR-COLUMN-003", "מידות עמודים",
                 "Column dimensions", "STRUCTURAL", "CRITICAL")

\* a product of two values is held in ten-thousandths
\* a faulty rule: the loop stops after the first column
StrColumn003_validate_first(self, data) ==
    LET columns_data == Get(Get(data, "structural", Empty), "columns", << >>)
        column == columns_data[1]
        width == Get(column, "width_cm", 0)
        depth == Get(column, "depth_cm", 0)
        violations ==
            When(width < 2500 \/ depth < 2500,
                 << <<"{}: Dimension {}x{}cm has side below minimum {}cm (SI 466 Section 7.4.1)",
                      ItemId(column, "Column", 1), width, depth, 2500>> >>)
    IN  IF columns_data = << >>
        THEN ValidationResult(self.rule_id, FALSE, << <<"No column data provided">> >>,
                              << >>, Empty, self.severity)
        ELSE ValidationResult(self.rule_id, Len(violations) = 0, violations, << >>,
                              Empty, self.severity)

StrColumn003_validate(self, data) ==
    LET structural_data == Get(data, "structural", Empty)
        columns_data == Get(structural_data, "columns", << >>)
        building_data == Get(data, "building", Empty)
        num_floors == Get(building_data, "num_floors", 100)
        column_id(i, column) == ItemId(column, "Column", i)
        width(column) == Get(column, "width_cm", 0)
        depth(column) == Get(column, "depth_cm", 0)
        min_dimension == 2500
        area_cm2(column) == width(column) * depth(column)
        min_area == IF num_floors > 300 THEN 9000000 ELSE 6250000
        max_dimension(column) == Max(width(column), depth(column))
        min_dimension_actual(column) == Min(width(column), depth(column))
        aspect_ratio(column) ==
            IF min_dimension_actual(column) > 0
            THEN QDiv(Num(max_dimension(column)), Num(min_dimension_actual(column)))
            ELSE <<0, 1>>
        \* round(aspect_ratio, 2) and f"{aspect_ratio:.2f}", in hundredths
        aspect_ratio_2(column) == QRound(aspect_ratio(column), 100)
        column_violations(i, column) ==
            When(width(column) < min_dimension \/ depth(column) < min_dimension,
                 << <<"{}: Dimension {}x{}cm has side below minimum {}cm (SI 466 Section 7.4.1)",
                      column_id(i, column), width(column), depth(column), min_dimension>> >>)
            \o When(area_cm2(column) < min_area,
                 << <<"{}: Area {}cm2 is below minimum {}cm2 for {}-floor building (SI 466)",
                      column_id(i, column), area_cm2(column), min_area, num_floors>> >>)
        column_warnings(i, column) ==
            When(QLess(<<3, 1>>, aspect_ratio(column)),
                 << <<"{}: Aspect ratio {:.2f} exceeds recommended 3.0, verify slenderness calculations",
                      column_id(i, column), aspect_ratio_2(column)>> >>)
        column_evidence(i, column) ==
            << <<column_id(i, column) \o "_dimensions",
                 <<"{}x{}cm", width(column), depth(column)>> >>,
               <<column_id(i, column) \o "_aspect_ratio", aspect_ratio_2(column)>> >>
        violations == ForEach(column_violations, columns_data)
        warnings == ForEach(column_warnings, columns_data)
        evidence == Dict(<< <<"num_floors", num_floors>> >>
                         \o ForEach(column_evidence, columns_data))
        passed == Len(violations) = 0
    IN  IF ~IsDict(data) \/ ~IsDict(structural_data) THEN AttributeError
        ELSE IF columns_data = << >>
        THEN ValidationResult(self.rule_id, FALSE, << <<"No column data provided">> >>,
                              << >>, Empty, self.severity)
        ELSE IF ~IsDict(building_data)
                \/ \E i \in 1..Len(columns_data) : ~IsDict(columns_data[i])
        THEN AttributeError
        ELSE ValidationResult(self.rule_id, passed, violations, warnings, evidence,
                              self.severity)

StrBeam004 ==
    BuildingRule("StrBeam004", "STR-BEAM-004", "מידות קורות",
                 "Beam dimensions", "STRUCTURAL", "CRITICAL")

\* The spans (hundredths of a metre) whose double (span * 100) / 12 lies above
\* the exact quotient although that quotient is a whole number of hundredths:
\* 4.44 * 100 is 444.00000000000006, so the minimum is 37.00000000000001.
\* Beside these the submissions' spans divide exactly or give a quotient that
\* no height in hundredths equals.
min_height_cm_above == {444}

\* The spans whose double min_height_cm * 1.1 lies above the exact product
\* although that product is a whole number of hundredths: 25.0 * 1.1 is
\* 27.500000000000004, 37.00000000000001 * 1.1 is 40.70000000000001 and
\* 50.0 * 1.1 is 55.00000000000001.
margin_height_cm_above == {300, 444, 600}

StrBeam004_validate(self, data) ==
    LET structural_data == Get(data, "structural", Empty)
        beams_data == Get(structural_data, "beams", << >>)
        beam_id(i, beam) == ItemId(beam, "Beam", i)
        width(beam) == Get(beam, "width_cm", 0)
        height(beam) == Get(beam, "height_cm", 0)
        span(beam) == Get(beam, "span_m", 0)
        min_height_cm(beam) == QDiv(QMul(Num(span(beam)), <<100, 1>>), <<12, 1>>)
        margin_height_cm(beam) == QMul(min_height_cm(beam), <<11, 10>>)
        \* height < min_height_cm and height < min_height_cm * 1.1 on doubles
        below_min(beam) ==
            \/ QLess(Num(height(beam)), min_height_cm(beam))
            \/ /\ ~QLess(min_height_cm(beam), Num(height(beam)))
               /\ span(beam) \in min_height_cm_above
        below_margin(beam) ==
            \/ QLess(Num(height(beam)), margin_height_cm(beam))
            \/ /\ ~QLess(margin_height_cm(beam), Num(height(beam)))
               /\ span(beam) \in margin_height_cm_above
        \* round(min_height_cm, 1) and f"{min_height_cm:.1f}", in tenths
        min_height_1(beam) == QRound(min_height_cm(beam), 10)
        \* f"{min_height_cm*1.1:.1f}", in tenths
        margin_height_1(beam) == QRound(margin_height_cm(beam), 10)
        max_span == 800
        beam_violations(i, beam) ==
            When(width(beam) < 2000,
                 << <<"{}: Width {}cm is below minimum 20cm (SI 466 Section 9.2.1)",
                      beam_id(i, beam), width(beam)>> >>)
            \o When(below_min(beam),
                 << <<"{}: Height {}cm is below minimum {:.1f}cm for span {}m (h >= span/12, SI 466)",
                      beam_id(i, beam), height(beam), min_height_1(beam), span(beam)>> >>)
        beam_warnings(i, beam) ==
            When(~below_min(beam) /\ below_margin(beam),
                 << <<"{}: Height {}cm is minimal for span {}m, recommend >={:.1f}cm",
                      beam_id(i, beam), height(beam), span(beam), margin_height_1(beam)>> >>)
            \o When(span(beam) > max_span,
                 << <<"{}: Span {}m exceeds recommended maximum {}m, verify deflection calculations",
                      beam_id(i, beam), span(beam), max_span>> >>)
        beam_evidence(i, beam) ==
            << <<beam_id(i, beam) \o "_dimensions",
                 <<"{}x{}cm, span={}m", width(beam), height(beam), span(beam)>> >>,
               <<beam_id(i, beam) \o "_min_height_cm", min_height_1(beam)>> >>
        violations == ForEach(beam_violations, beams_data)
        warnings == ForEach(beam_warnings, beams_data)
        evidence == Dict(ForEach(beam_evidence, beams_data))
        passed == Len(violations) = 0
    IN  IF ~IsDict(data) \/ ~IsDict(structural_data) THEN AttributeError
        ELSE IF beams_data = << >>
        THEN ValidationResult(self.rule_id, FALSE, << <<"No beam data provided">> >>,
                              << >>, Empty, self.severity)
        ELSE IF \E i \in 1..Len(beams_data) : ~IsDict(beams_data[i])
        THEN AttributeError
        ELSE ValidationResult(self.rule_id, passed, violations, warnings, evidence,
                              self.severity)

StrSlab005 ==
    BuildingRule("StrSlab005", "STR-SLAB-005", "עובי תקרה",
                 "Slab thickness", "STRUCTURAL", "CRITICAL")

StrSlab005_validate(self, data) ==
    LET structural_data == Get(data, "structural", Empty)
        slabs_data == Get(structural_data, "slabs", << >>)
        slab_id(i, slab) == ItemId(slab, "Slab", i)
        thickness(slab) == Get(slab, "thickness_cm", 0)
        span(slab) == Get(slab, "span_m", 0)
        slab_type(slab) == Get(slab, "type", "solid")
        min_thickness_cm(slab) ==
            IF slab_type(slab) = "solid"
            THEN QDiv(QMul(Num(span(slab)), <<100, 1>>), <<30, 1>>)
            ELSE IF slab_type(slab) = "ribbed"
            THEN QDiv(QMul(Num(span(slab)), <<100, 1>>), <<25, 1>>)
            ELSE QDiv(QMul(Num(span(slab)), <<100, 1>>), <<30, 1>>)
        \* round(min_thickness_cm, 1) and f"{min_thickness_cm:.1f}", in tenths
        min_thickness_1(slab) == QRound(min_thickness_cm(slab), 10)
        absolute_min == 1200
        slab_violations(i, slab) ==
            When(QLess(Num(thickness(slab)), min_thickness_cm(slab)),
                 << <<"{}: Thickness {}cm is below minimum {:.1f}cm for {} slab with span {}m (SI 466)",
                      slab_id(i, slab), thickness(slab), min_thickness_1(slab),
                      slab_type(slab), span(slab)>> >>)
            \o When(slab_type(slab) = "solid" /\ thickness(slab) < absolute_min,
                 << <<"{}: Thickness {}cm is below absolute minimum {}cm for solid slab (SI 466 Section 9.3.1)",
                      slab_id(i, slab), thickness(slab), absolute_min>> >>)
        slab_warnings(i, slab) ==
            When(thickness(slab) < 1500 /\ span(slab) > 400,
                 << <<"{}: Thickness {}cm is thin for span {}m, verify deflection and vibration",
                      slab_id(i, slab), thickness(slab), span(slab)>> >>)
        slab_evidence(i, slab) ==
            << <<slab_id(i, slab) \o "_data",
                 <<"thickness={}cm, span={}m, type={}", thickness(slab), span(slab),
                   slab_type(slab)>> >>,
               <<slab_id(i, slab) \o "_min_thickness_cm", min_thickness_1(slab)>> >>
        violations == ForEach(slab_violations, slabs_data)
        warnings == ForEach(slab_warnings, slabs_data)
        evidence == Dict(ForEach(slab_evidence, slabs_data))
        passed == Len(violations) = 0
    IN  IF ~IsDict(data) \/ ~IsDict(structural_data) THEN AttributeError
        ELSE IF slabs_data = << >>
        THEN ValidationResult(self.rule_id, FALSE, << <<"No slab data provided">> >>,
                              << >>, Empty, self.severity)
        ELSE IF \E i \in 1..Len(slabs_data) : ~IsDict(slabs_data[i])
        THEN AttributeError
        ELSE ValidationResult(self.rule_id, passed, violations, warnings, evidence,
                              self.severity)

----------------------------------------------------------------------------
(* Zoning rules *)

ZonSetback001 ==
    BuildingRule("ZonSetback001", "ZON-SETBACK-001", "נסיגה מגבול המגרש",
                 "Building setbacks from property line", "ZONING", "CRITICAL")

\* str.capitalize() on the seven directions
Capitalize ==
    [north |-> "North", south |-> "South", east |-> "East", west |-> "West",
     front |-> "Front", rear |-> "Rear", side |-> "Side"]

\* a faulty rule: the default minimum is applied whenever no direction has a
\* requirement above 0, and the directions are not looked at
ZonSetback001_validate_default(self, data) ==
    LET required_setbacks == Get(Get(data, "plot", Empty), "required_setbacks", Empty)
        actual_setbacks == Get(Get(data, "building", Empty), "setbacks", Empty)
        min_setback == IF actual_setbacks # Empty THEN MinOf(Values(actual_setbacks)) ELSE 0
        violations ==
            When(min_setback < 300 /\ \A k \in DOMAIN required_setbacks : required_setbacks[k] = 0,
                 << <<"Minimum setback {}m is below default minimum {}m", min_setback, 300>> >>)
    IN  ValidationResult(self.rule_id, Len(violations) = 0, violations, << >>,
                         Dict(<< <<"minimum_setback", <<"{}m", min_setback>> >> >>),
                         self.severity)

ZonSetback001_validate(self, data) ==
    LET plot_data == Get(data, "plot", Empty)
        building_data == Get(data, "building", Empty)
        required_setbacks == Get(plot_data, "required_setbacks", Empty)
        actual_setbacks == Get(building_data, "setbacks", Empty)
        directions == <<"north", "south", "east", "west", "front", "rear", "side">>
        required(direction) == Get(required_setbacks, direction, 0)
        actual(direction) == Get(actual_setbacks, direction, 0)
        direction_violations(i, direction) ==
            When(required(direction) > 0 /\ actual(direction) < required(direction),
                 << <<"{} setback {}m is below required {}m (shortage: {}m) per TABA",
                      Capitalize[direction], actual(direction), required(direction),
                      required(direction) - actual(direction)>> >>)
        direction_warnings(i, direction) ==
            When(required(direction) > 0 /\ ~(actual(direction) < required(direction))
                 /\ actual(direction) < required(direction) + 50,
                 << <<"{} setback {}m is minimal, only {}m above required {}m",
                      Capitalize[direction], actual(direction),
                      actual(direction) - required(direction), required(direction)>> >>)
        direction_evidence(i, direction) ==
            When(required(direction) > 0,
                 << <<"setback_" \o direction,
                      <<"required={}m, actual={}m", required(direction),
                        actual(direction)>> >> >>)
        min_setback == IF actual_setbacks # Empty THEN MinOf(Values(actual_setbacks)) ELSE 0
        default_min == 300
        violations ==
            ForEach(direction_violations, directions)
            \o When(min_setback < default_min /\ required_setbacks = Empty,
                 << <<"Minimum setback {}m is below default minimum {}m",
                      min_setback, default_min>> >>)
        warnings == ForEach(direction_warnings, directions)
        evidence == Dict(ForEach(direction_evidence, directions)
                         \o << <<"minimum_setback", <<"{}m", min_setback>> >> >>)
        passed == Len(violations) = 0
    IN  IF ~IsDict(data) \/ ~IsDict(plot_data) \/ ~IsDict(building_data)
           \/ ~IsDict(required_setbacks) \/ ~IsDict(actual_setbacks)
        THEN AttributeError
        ELSE ValidationResult(self.rule_id, passed, violations, warnings, evidence,
                              self.severity)

ZonHeight002 ==
    BuildingRule("ZonHeight002", "ZON-HEIGHT-002", "גובה בניין מקסימלי",
                 "Maximum building height", "ZONING", "CRITICAL")

ZonHeight002_validate(self, data) ==
    LET plot_data == Get(data, "plot", Empty)
        building_data == Get(data, "building", Empty)
        building_height == Get(building_data, "height_m", 0)
        max_height == Get(plot_data, "max_height_m", 0)
        num_floors == Get(building_data, "num_floors", 0)
        max_floors == Get(plot_data, "max_floors", 0)
        has_avg == num_floors > 0 /\ building_height > 0
        avg_floor_height == QDiv(Num(building_height), Num(num_floors))
        \* round(avg_floor_height, 2) and f"{avg_floor_height:.2f}", in hundredths
        avg_floor_height_2 == QRound(avg_floor_height, 100)
        avg_below == has_avg /\ QLess(avg_floor_height, <<26, 10>>)
        avg_above == has_avg /\ QLess(<<45, 10>>, avg_floor_height)
        violations ==
            When(max_height > 0 /\ building_height > max_height,
                 << <<"Building height {}m exceeds maximum {}m (excess: {}m) per TABA",
                      building_height, max_height, building_height - max_height>> >>)
            \o When(max_floors > 0 /\ num_floors > max_floors,
                 << <<"Number of floors {} exceeds maximum {} per TABA",
                      num_floors, max_floors>> >>)
            \o When(avg_below,
                 << <<"Average floor height {:.2f}m is below minimum 2.6m",
                      avg_floor_height_2>> >>)
        warnings ==
            When(max_height > 0 /\ ~(building_height > max_height)
                 /\ QLess(QMul(Num(max_height), <<95, 100>>), Num(building_height)),
                 << <<"Building height {}m is very close to maximum {}m, only {}m margin",
                      building_height, max_height, max_height - building_height>> >>)
            \o When(~avg_below /\ avg_above,
                 << <<"Average floor height {:.2f}m is unusually high, verify",
                      avg_floor_height_2>> >>)
        evidence ==
            Dict(<< <<"building_height_m", building_height>>,
                    <<"max_allowed_height_m", max_height>>,
                    <<"num_floors", num_floors>>,
                    <<"max_floors", max_floors>> >>
                 \o When(has_avg, << <<"avg_floor_height_m", avg_floor_height_2>> >>))
        passed == Len(violations) = 0
    IN  IF ~IsDict(data) \/ ~IsDict(plot_data) \/ ~IsDict(building_data)
        THEN AttributeError
        ELSE ValidationResult(self.rule_id, passed, violations, warnings, evidence,
                              self.severity)

ZonCoverage003 ==
    BuildingRule("ZonCoverage003", "ZON-COVERAGE-003", "אחוז כיסוי",
                 "Building coverage percentage", "ZONING", "CRITICAL")

\* a faulty rule: the coverage is computed before the plot area is looked at
ZonCoverage003_validate_divides(self, data) ==
    LET plot_area == Get(Get(data, "plot", Empty), "area_m2", 0)
    IN  IF plot_area = 0 THEN [exception |-> "division by zero"]
        ELSE ValidationResult(self.rule_id, TRUE, << >>, << >>,
                              Dict(<< <<"plot_area_m2", plot_area>> >>), self.severity)

ZonCoverage003_validate(self, data) ==
    LET plot_data == Get(data, "plot", Empty)
        building_data == Get(data, "building", Empty)
        plot_area == Get(plot_data, "area_m2", 0)
        building_footprint == Get(building_data, "footprint_m2", 0)
        max_coverage == Get(plot_data, "max_coverage_percent", 0)
        coverage_percent ==
            QMul(QDiv(Num(building_footprint), Num(plot_area)), <<100, 1>>)
        \* round(coverage_percent, 2), in hundredths
        coverage_percent_2 == QRound(coverage_percent, 100)
        \* f"{coverage_percent:.1f}", in tenths
        coverage_percent_1 == QRound(coverage_percent, 10)
        exceeds == QLess(Num(max_coverage), coverage_percent)
        close == QLess(QMul(Num(max_coverage), <<95, 100>>), coverage_percent)
        \* f"{excess:.1f}" with excess = coverage_percent - max_coverage, in tenths
        excess_1 == QRound(QSub(coverage_percent, Num(max_coverage)), 10)
        \* f"{max_coverage - coverage_percent:.1f}", in tenths
        margin_1 == QRound(QSub(Num(max_coverage), coverage_percent), 10)
        default_max == 5000
        violations ==
            When(max_coverage > 0 /\ exceeds,
                 << <<"Building coverage {:.1f}% exceeds maximum {}% (excess: {:.1f}%) per TABA",
                      coverage_percent_1, max_coverage, excess_1>> >>)
        warnings ==
            When(max_coverage > 0 /\ ~exceeds /\ close,
                 << <<"Building coverage {:.1f}% is very close to maximum {}%, only {:.1f}% margin",
                      coverage_percent_1, max_coverage, margin_1>> >>)
            \o When(~(max_coverage > 0) /\ QLess(Num(default_max), coverage_percent),
                 << <<"Building coverage {:.1f}% exceeds typical maximum {}%",
                      coverage_percent_1, default_max>> >>)
        evidence ==
            Dict(<< <<"plot_area_m2", plot_area>>,
                    <<"building_footprint_m2", building_footprint>>,
                    <<"coverage_percent", coverage_percent_2>>,
                    <<"max_coverage_percent", max_coverage>> >>)
        passed == Len(violations) = 0
    IN  IF ~IsDict(data) \/ ~IsDict(plot_data)
        THEN AttributeError
        ELSE IF plot_area = 0
        THEN ValidationResult(self.rule_id, FALSE, << <<"Plot area not provided">> >>,
                              << >>, Dict(<< <<"plot_area_m2", plot_area>> >>),
                              self.severity)
        ELSE IF ~IsDict(building_data)
        THEN AttributeError
        ELSE ValidationResult(self.rule_id, passed, violations, warnings, evidence,
                              self.severity)

ZonFar004 ==
    BuildingRule("ZonFar004", "ZON-FAR-004", "תכסית קומות (תב\"ע)",
                 "Floor Area Ratio (FAR)", "ZONING", "CRITICAL")

ZonFar004_validate(self, data) ==
    LET plot_data == Get(data, "plot", Empty)
        building_data == Get(data, "building", Empty)
        plot_area == Get(plot_data, "area_m2", 0)
        total_floor_area == Get(building_data, "total_floor_area_m2", 0)
        max_far == Get(plot_data, "max_far", 0)
        far == QDiv(Num(total_floor_area), Num(plot_area))
        \* round(far, 2) and f"{far:.2f}", in hundredths
        far_2 == QRound(far, 100)
        exceeds == QLess(Num(max_far), far)
        close == QLess(QMul(Num(max_far), <<95, 100>>), far)
        excess == QSub(far, Num(max_far))
        \* f"{excess:.2f}", in hundredths
        excess_2 == QRound(excess, 100)
        \* f"{excess_area:.1f}" with excess_area = excess * plot_area, in tenths
        excess_area_1 == QRound(QMul(excess, Num(plot_area)), 10)
        margin == QSub(Num(max_far), far)
        \* f"{margin:.2f}", in hundredths
        margin_2 == QRound(margin, 100)
        \* f"{margin * plot_area:.1f}", in tenths
        margin_area_1 == QRound(QMul(margin, Num(plot_area)), 10)
        default_max_far == 150
        residential_area == Get(building_data, "residential_area_m2", 0)
        commercial_area == Get(building_data, "commercial_area_m2", 0)
        service_area == Get(building_data, "service_area_m2", 0)
        has_breakdown == residential_area # 0 \/ commercial_area # 0 \/ service_area # 0
        calculated_total == residential_area + commercial_area + service_area
        violations ==
            When(max_far > 0 /\ exceeds,
                 << <<"FAR {:.2f} exceeds maximum {} (excess: {:.2f}, excess area: {:.1f}m2) per TABA",
                      far_2, max_far, excess_2, excess_area_1>> >>)
        warnings ==
            When(max_far > 0 /\ ~exceeds /\ close,
                 << <<"FAR {:.2f} is very close to maximum {}, only {:.2f} margin ({:.1f}m2)",
                      far_2, max_far, margin_2, margin_area_1>> >>)
            \o When(~(max_far > 0) /\ QLess(Num(default_max_far), far),
                 << <<"FAR {:.2f} exceeds typical maximum {} for residential",
                      far_2, default_max_far>> >>)
            \o When(has_breakdown /\ Abs(calculated_total - total_floor_area) > 100,
                 << <<"Sum of area breakdown ({}m2) doesn't match total floor area ({}m2)",
                      calculated_total, total_floor_area>> >>)
        evidence ==
            Dict(<< <<"plot_area_m2", plot_area>>,
                    <<"total_floor_area_m2", total_floor_area>>,
                    <<"far", far_2>>,
                    <<"max_far", max_far>> >>
                 \o When(has_breakdown,
                         << <<"residential_area_m2", residential_area>>,
                            <<"commercial_area_m2", commercial_area>>,
                            <<"service_area_m2", service_area>> >>))
        passed == Len(violations) = 0
    IN  IF ~IsDict(data) \/ ~IsDict(plot_data)
        THEN AttributeError
        ELSE IF plot_area = 0
        THEN ValidationResult(self.rule_id, FALSE, << <<"Plot area not provided">> >>,
                              << >>, Dict(<< <<"plot_area_m2", plot_area>> >>),
                              self.severity)
        ELSE IF ~IsDict(building_data)
        THEN AttributeError
        ELSE ValidationResult(self.rule_id, passed, violations, warnings, evidence,
                              self.severity)

\* a number of spaces, in hundredths like every number
calculate_parking_requirement(floor_area, use_type, num_units) ==
    IF use_type = "residential"
    THEN IF num_units > 0
         THEN 100 * QInt(QMul(Num(num_units), <<12, 10>>))
         ELSE 100 * QInt(QMul(QDiv(Num(floor_area), <<100, 1>>), <<12, 10>>))
    ELSE IF use_type = "office" THEN 100 * QInt(QDiv(Num(floor_area), <<40, 1>>))
    ELSE IF use_type = "commercial" \/ use_type = "retail"
    THEN 100 * QInt(QDiv(Num(floor_area), <<40, 1>>))
    ELSE IF use_type = "restaurant" THEN 100 * QInt(QDiv(Num(floor_area), <<20, 1>>))
    ELSE 100 * QInt(QDiv(Num(floor_area), <<50, 1>>))

check_parking_requirement(floor_area, use_type, num_units) ==
    calculate_parking_requirement(floor_area, use_type, num_units)

\* a faulty registration: the parking rule filed under another category
ZonParking005_as_safety ==
    BuildingRule("ZonParking005", "ZON-PARKING-005", "דרישות חניה",
                 "Required parking spaces", "SAFETY", "HIGH")

ZonParking005 ==
    BuildingRule("ZonParking005", "ZON-PARKING-005", "דרישות חניה",
                 "Required parking spaces", "ZONING", "HIGH")

ZonParking005_get_parking_standard(use_type) ==
    LET standards == [residential |-> "1.0-1.5 spaces per unit",
                      office |-> "1 space per 40m2",
                      commercial |-> "1 space per 50m2",
                      retail |-> "1 space per 30m2",
                      restaurant |-> "1 space per 20m2"]
    IN  Get(standards, use_type, "Standard rates per local ordinance")

\* a faulty minimum: 5% of the provided spaces, with no floor of one space
min_accessible_spaces_percent(provided_spaces) ==
    100 * QInt(QMul(Num(provided_spaces), <<5, 100>>))

\* max(1, int(provided_spaces * 0.05))
min_accessible_spaces(provided_spaces) ==
    Max(100, 100 * QInt(QMul(Num(provided_spaces), <<5, 100>>)))

ZonParking005_validate(self, data) ==
    LET building_data == Get(data, "building", Empty)
        parking_data == Get(building_data, "parking", Empty)
        provided_spaces == Get(parking_data, "total_spaces", 0)
        required_spaces ==
            calculate_parking_requirement(Get(building_data, "total_floor_area_m2", 0),
                                          Get(building_data, "use_type", "residential"),
                                          Get(building_data, "num_units", 0))
        accessible_spaces == Get(parking_data, "accessible_spaces", 0)
        min_accessible == min_accessible_spaces(provided_spaces)
        violations ==
            When(provided_spaces < required_spaces,
                 << <<"Parking spaces {} below required {} (shortage: {} spaces)",
                      provided_spaces, required_spaces,
                      required_spaces - provided_spaces>> >>)
            \o When(accessible_spaces < min_accessible,
                 << <<"Accessible parking spaces {} below minimum {} (5% of total, minimum 1)",
                      accessible_spaces, min_accessible>> >>)
        warnings ==
            When(~(provided_spaces < required_spaces)
                 /\ provided_spaces < required_spaces + 200,
                 << <<"Parking spaces {} barely meets requirement of {}, consider adding buffer",
                      provided_spaces, required_spaces>> >>)
        evidence ==
            Dict(<< <<"provided_spaces", provided_spaces>>,
                    <<"required_spaces", required_spaces>>,
                    <<"calculation_basis",
                      ZonParking005_get_parking_standard(
                          Get(building_data, "use_type", "residential"))>>,
                    <<"accessible_spaces", accessible_spaces>>,
                    <<"min_accessible_spaces", min_accessible>> >>)
        passed == Len(violations) = 0
    IN  IF ~IsDict(data) \/ ~IsDict(building_data) \/ ~IsDict(parking_data)
        THEN AttributeError
        ELSE ValidationResult(self.rule_id, passed, violations, warnings, evidence,
                              self.severity)

----------------------------------------------------------------------------
(* Safety rules *)

SafFire001 ==
    BuildingRule("SafFire001", "SAF-FIRE-001", "דרישות כיבוי אש",
                 "Fire suppression requirements", "SAFETY", "CRITICAL")

SafFire001_validate(self, data) ==
    LET building_data == Get(data, "building", Empty)
        safety_data == Get(building_data, "safety", Empty)
        fire_data == Get(safety_data, "fire_suppression", Empty)
        num_floors == Get(building_data, "num_floors", 0)
        building_height == Get(building_data, "height_m", 0)
        building_use == Get(building_data, "use_type", "residential")
        has_sprinklers == Get(fire_data, "has_sprinkler_system", FALSE)
        has_extinguishers == Get(fire_data, "has_fire_extinguishers", FALSE)
        has_fire_alarm == Get(fire_data, "has_fire_alarm", FALSE)
        has_fire_rated_elements == Get(fire_data, "has_fire_rated_elements", FALSE)
        violations ==
            When((num_floors > 400 \/ building_height > 1200) /\ ~has_sprinklers,
                 << <<"Sprinkler system required for buildings with {} floors or height {}m (SI 1220 Part 4)",
                      num_floors, building_height>> >>)
            \o When(~has_extinguishers,
                 << <<"Fire extinguishers required on every floor (SI 1220)">> >>)
            \o When(building_use \in {"residential", "commercial", "office", "assembly"}
                    /\ num_floors > 200 /\ ~has_fire_alarm,
                 << <<"Fire alarm system required for {} building with {} floors (SI 1220)",
                      building_use, num_floors>> >>)
        warnings ==
            When(num_floors > 200 /\ ~has_fire_rated_elements,
                 << <<"Fire-rated doors and walls recommended for multi-floor buildings">> >>)
        evidence ==
            Dict(<< <<"num_floors", num_floors>>,
                    <<"building_height_m", building_height>>,
                    <<"building_use", building_use>>,
                    <<"has_sprinkler_system", has_sprinklers>>,
                    <<"has_fire_extinguishers", has_extinguishers>>,
                    <<"has_fire_alarm", has_fire_alarm>>,
                    <<"has_fire_rated_elements", has_fire_rated_elements>> >>)
        passed == Len(violations) = 0
    IN  IF ~IsDict(data) \/ ~IsDict(building_data) \/ ~IsDict(safety_data)
           \/ ~IsDict(fire_data)
        THEN AttributeError
        ELSE ValidationResult(self.rule_id, passed, violations, warnings, evidence,
                              self.severity)

SafEvac002 ==
    BuildingRule("SafEvac002", "SAF-EVAC-002", "יציאות חירום",
                 "Emergency exits", "SAFETY", "CRITICAL")

\* the position i+1 of an exit in its message is a plain integer
SafEvac002_validate(self, data) ==
    LET building_data == Get(data, "building", Empty)
        safety_data == Get(building_data, "safety", Empty)
        evac_data == Get(safety_data, "evacuation", Empty)
        num_floors == Get(building_data, "num_floors", 0)
        floor_area == Get(building_data, "typical_floor_area_m2", 0)
        occupancy == Get(building_data, "max_occupancy", 0)
        num_exits == Get(evac_data, "num_emergency_exits", 0)
        exit_widths == Get(evac_data, "exit_widths_cm", << >>)
        max_travel_distance == Get(evac_data, "max_travel_distance_m", 0)
        max_allowed == IF "use_type" \in DOMAIN building_data
                          /\ building_data["use_type"] = "assembly"
                       THEN 2000 ELSE 3000
        has_emergency_lighting == Get(evac_data, "has_emergency_lighting", FALSE)
        needs_two == num_floors > 200 \/ occupancy > 5000
        width_violations(i, width) ==
            When(width < 9000,
                 << <<"Emergency exit {} width {}cm below minimum 90cm (SI 1220)",
                      i, width>> >>)
        violations ==
            When(needs_two /\ num_exits < 200,
                 << <<"Minimum 2 emergency exits required for {} floors or occupancy {} (SI 1220 Part 3)",
                      num_floors, occupancy>> >>)
            \o When(~needs_two /\ num_exits < 100,
                 << <<"At least 1 emergency exit required">> >>)
            \o ForEach(width_violations, exit_widths)
            \o When(max_travel_distance > max_allowed,
                 << <<"Maximum travel distance {}m exceeds limit {}m (SI 1220)",
                      max_travel_distance, max_allowed>> >>)
            \o When(~has_emergency_lighting /\ num_floors > 200,
                 << <<"Emergency lighting required on exit routes (SI 1220)">> >>)
        warnings == << >>
        evidence ==
            Dict(<< <<"num_floors", num_floors>>,
                    <<"floor_area_m2", floor_area>>,
                    <<"max_occupancy", occupancy>>,
                    <<"num_emergency_exits", num_exits>>,
                    <<"exit_widths_cm", exit_widths>>,
                    <<"max_travel_distance_m", max_travel_distance>>,
                    <<"has_emergency_lighting", has_emergency_lighting>> >>)
        passed == Len(violations) = 0
    IN  IF ~IsDict(data) \/ ~IsDict(building_data) \/ ~IsDict(safety_data)
           \/ ~IsDict(evac_data)
        THEN AttributeError
        ELSE ValidationResult(self.rule_id, passed, violations, warnings, evidence,
                              self.severity)

SafStair003 ==
    BuildingRule("SafStair003", "SAF-STAIR-003", "מידות חדר מדרגות",
                 "Stairway dimensions", "SAFETY", "CRITICAL")

SafStair003_validate(self, data) ==
    LET building_data == Get(data, "building", Empty)
        safety_data == Get(building_data, "safety", Empty)
        stairs_data == Get(safety_data, "stairways", << >>)
        stair_id(i, stair) == ItemId(stair, "Stairway", i)
        tread_depth(stair) == Get(stair, "tread_depth_cm", 0)
        riser_height(stair) == Get(stair, "riser_height_cm", 0)
        width(stair) == Get(stair, "width_cm", 0)
        headroom(stair) == Get(stair, "headroom_cm", 0)
        landing_depth(stair) == Get(stair, "landing_depth_cm", 0)
        stair_violations(i, stair) ==
            When(tread_depth(stair) < 2500,
                 << <<"{}: Tread depth {}cm below minimum 25cm (SI 1142)",
                      stair_id(i, stair), tread_depth(stair)>> >>)
            \o When(riser_height(stair) > 1900,
                 << <<"{}: Riser height {}cm exceeds maximum 19cm (SI 1142)",
                      stair_id(i, stair), riser_height(stair)>> >>)
            \o When(width(stair) < 12000,
                 << <<"{}: Width {}cm below minimum 120cm (SI 1142)",
                      stair_id(i, stair), width(stair)>> >>)
            \o When(headroom(stair) < 21000,
                 << <<"{}: Headroom {}cm below minimum 210cm (SI 1142)",
                      stair_id(i, stair), headroom(stair)>> >>)
        stair_warnings(i, stair) ==
            When(~(riser_height(stair) > 1900) /\ riser_height(stair) < 1200,
                 << <<"{}: Riser height {}cm is unusually low",
                      stair_id(i, stair), riser_height(stair)>> >>)
            \o When(landing_depth(stair) < width(stair),
                 << <<"{}: Landing depth {}cm should be at least equal to width {}cm",
                      stair_id(i, stair), landing_depth(stair), width(stair)>> >>)
        stair_evidence(i, stair) ==
            << <<stair_id(i, stair) \o "_tread_depth_cm", tread_depth(stair)>>,
               <<stair_id(i, stair) \o "_riser_height_cm", riser_height(stair)>>,
               <<stair_id(i, stair) \o "_width_cm", width(stair)>>,
               <<stair_id(i, stair) \o "_headroom_cm", headroom(stair)>>,
               <<stair_id(i, stair) \o "_landing_depth_cm", landing_depth(stair)>> >>
        violations == ForEach(stair_violations, stairs_data)
        warnings == ForEach(stair_warnings, stairs_data)
        evidence == Dict(ForEach(stair_evidence, stairs_data))
        passed == Len(violations) = 0
    IN  IF ~IsDict(data) \/ ~IsDict(building_data) \/ ~IsDict(safety_data)
        THEN AttributeError
        ELSE IF stairs_data = << >>
        THEN ValidationResult(self.rule_id, FALSE, << <<"No stairway data provided">> >>,
                              << >>, Empty, self.severity)
        ELSE IF \E i \in 1..Len(stairs_data) : ~IsDict(stairs_data[i])
        THEN AttributeError
        ELSE ValidationResult(self.rule_id, passed, violations, warnings, evidence,
                              self.severity)

SafRail004 ==
    BuildingRule("SafRail004", "SAF-RAIL-004", "מעקות בטיחות",
                 "Safety railings", "SAFETY", "CRITICAL")

SafRail004_validate(self, data) ==
    LET building_data == Get(data, "building", Empty)
        safety_data == Get(building_data, "safety", Empty)
        railings_data == Get(safety_data, "railings", Empty)
        balcony_railing_height == Get(railings_data, "balcony_height_cm", 0)
        stair_railing_height == Get(railings_data, "stair_height_cm", 0)
        bar_spacing == Get(railings_data, "bar_spacing_cm", 0)
        railing_load_capacity == Get(railings_data, "load_capacity_kn", 0)
        has_roof_access == Get(building_data, "has_roof_access", FALSE)
        has_roof_railing == Get(railings_data, "has_roof_railing", FALSE)
        violations ==
            When(balcony_railing_height > 0 /\ balcony_railing_height < 11000,
                 << <<"Balcony railing height {}cm below minimum 110cm (SI 1142)",
                      balcony_railing_height>> >>)
            \o When(stair_railing_height > 0 /\ stair_railing_height < 9000,
                 << <<"Stairway railing height {}cm below minimum 90cm (SI 1142)",
                      stair_railing_height>> >>)
            \o When(bar_spacing > 1200,
                 << <<"Railing bar spacing {}cm exceeds maximum 12cm (SI 1142)",
                      bar_spacing>> >>)
            \o When(railing_load_capacity > 0 /\ railing_load_capacity < 150,
                 << <<"Railing load capacity {}kN below minimum 1.5kN (SI 1142)",
                      railing_load_capacity>> >>)
            \o When(has_roof_access /\ ~has_roof_railing,
                 << <<"Roof railing required for accessible roofs (SI 1142)">> >>)
        warnings == << >>
        evidence ==
            Dict(<< <<"balcony_railing_height_cm", balcony_railing_height>>,
                    <<"stair_railing_height_cm", stair_railing_height>>,
                    <<"bar_spacing_cm", bar_spacing>>,
                    <<"railing_load_capacity_kn", railing_load_capacity>>,
                    <<"has_roof_access", has_roof_access>>,
                    <<"has_roof_railing", has_roof_railing>> >>)
        passed == Len(violations) = 0
    IN  IF ~IsDict(data) \/ ~IsDict(building_data) \/ ~IsDict(safety_data)
           \/ ~IsDict(railings_data)
        THEN AttributeError
        ELSE ValidationResult(self.rule_id, passed, violations, warnings, evidence,
                              self.severity)

SafLight005 ==
    BuildingRule("SafLight005", "SAF-LIGHT-005", "תאורת חירום",
                 "Emergency lighting", "SAFETY", "HIGH")

SafLight005_validate(self, data) ==
    LET building_data == Get(data, "building", Empty)
        safety_data == Get(building_data, "safety", Empty)
        lighting_data == Get(safety_data, "emergency_lighting", Empty)
        num_floors == Get(building_data, "num_floors", 0)
        building_use == Get(building_data, "use_type", "residential")
        has_emergency_lighting == Get(lighting_data, "has_system", FALSE)
        backup_duration == Get(lighting_data, "backup_duration_minutes", 0)
        min_illumination == Get(lighting_data, "min_illumination_lux", 0)
        has_exit_signs == Get(lighting_data, "has_exit_signs", FALSE)
        escape_route_coverage == Get(lighting_data, "escape_route_coverage_percent", 0)
        violations ==
            When((num_floors > 200 \/ building_use \in {"commercial", "office", "assembly"})
                 /\ ~has_emergency_lighting,
                 << <<"Emergency lighting required for {}-floor {} building (SI 1220)",
                      num_floors, building_use>> >>)
            \o When(has_emergency_lighting /\ backup_duration < 9000,
                 << <<"Emergency lighting backup duration {} minutes below minimum 90 minutes (SI 1220)",
                      backup_duration>> >>)
            \o When(has_emergency_lighting /\ min_illumination < 100,
                 << <<"Emergency lighting illumination {} lux below minimum 1 lux (SI 1220)",
                      min_illumination>> >>)
            \o When(has_emergency_lighting /\ escape_route_coverage < 10000,
                 << <<"Emergency lighting must cover 100% of escape routes, current coverage: {}%",
                      escape_route_coverage>> >>)
        warnings ==
            When(num_floors > 200 /\ ~has_exit_signs,
                 << <<"Illuminated exit signs recommended for multi-floor buildings">> >>)
        evidence ==
            Dict(<< <<"num_floors", num_floors>>,
                    <<"building_use", building_use>>,
                    <<"has_emergency_lighting", has_emergency_lighting>>,
                    <<"backup_duration_minutes", backup_duration>>,
                    <<"min_illumination_lux", min_illumination>>,
                    <<"has_exit_signs", has_exit_signs>>,
                    <<"escape_route_coverage_percent", escape_route_coverage>> >>)
        passed == Len(violations) = 0
    IN  IF ~IsDict(data) \/ ~IsDict(building_data) \/ ~IsDict(safety_data)
           \/ ~IsDict(lighting_data)
        THEN AttributeError
        ELSE ValidationResult(self.rule_id, passed, violations, warnings, evidence,
                              self.severity)

----------------------------------------------------------------------------
(* Accessibility rules *)

\* a faulty helper: the ratio is returned, not the percentage
verify_ramp_slope_ratio(ramp_data) ==
    LET rise == IF "rise_m" \in DOMAIN ramp_data THEN Num(ramp_data["rise_m"])
                ELSE QDiv(Num(Get(ramp_data, "rise_cm", 0)), <<100, 1>>)
        run == IF "run_m" \in DOMAIN ramp_data THEN Num(ramp_data["run_m"])
               ELSE QDiv(Num(Get(ramp_data, "run_cm", 0)), <<100, 1>>)
    IN  IF run[1] = 0 THEN <<100, 1>> ELSE QDiv(rise, run)

\* the slope as a percentage, a Fraction
verify_ramp_slope(ramp_data) ==
    LET rise == IF "rise_m" \in DOMAIN ramp_data THEN Num(ramp_data["rise_m"])
                ELSE QDiv(Num(Get(ramp_data, "rise_cm", 0)), <<100, 1>>)
        run == IF "run_m" \in DOMAIN ramp_data THEN Num(ramp_data["run_m"])
               ELSE QDiv(Num(Get(ramp_data, "run_cm", 0)), <<100, 1>>)
        slope_ratio == QDiv(rise, run)
        slope_percent == QMul(slope_ratio, <<100, 1>>)
    IN  IF run[1] = 0 THEN <<100, 1>> ELSE slope_percent

AccRamp001 ==
    BuildingRule("AccRamp001", "ACC-RAMP-001", "שיפוע רמפה",
                 "Ramp slope", "ACCESSIBILITY", "CRITICAL")

AccRamp001_validate(self, data) ==
    LET building_data == Get(data, "building", Empty)
        accessibility_data == Get(building_data, "accessibility", Empty)
        ramps_data == Get(accessibility_data, "ramps", << >>)
        has_level_changes == Get(building_data, "has_level_changes", FALSE)
        ramp_id(i, ramp) == ItemId(ramp, "Ramp", i)
        slope_percent(ramp) == verify_ramp_slope(ramp)
        \* f"{slope_percent:.2f}", in hundredths
        slope_percent_2(ramp) == QRound(slope_percent(ramp), 100)
        max_slope == 833
        too_steep(ramp) == QLess(Num(max_slope), slope_percent(ramp))
        steep(ramp) == QLess(<<6, 1>>, slope_percent(ramp))
        width(ramp) == Get(ramp, "width_cm", 0)
        run_length(ramp) == Get(ramp, "run_length_m", 0)
        has_landing(ramp) == Get(ramp, "has_landing", FALSE)
        has_handrails(ramp) == Get(ramp, "has_handrails", FALSE)
        ramp_violations(i, ramp) ==
            When(too_steep(ramp),
                 << <<"{}: Slope {:.2f}% exceeds maximum {}% (Israeli accessibility law)",
                      ramp_id(i, ramp), slope_percent_2(ramp), max_slope>> >>)
            \o When(width(ramp) < 9000,
                 << <<"{}: Width {}cm below minimum 90cm", ramp_id(i, ramp), width(ramp)>> >>)
            \o When(run_length(ramp) > 900 /\ ~has_landing(ramp),
                 << <<"{}: Landing required for run length {}m (max 9m between landings)",
                      ramp_id(i, ramp), run_length(ramp)>> >>)
            \o When(~has_handrails(ramp),
                 << <<"{}: Handrails required on both sides", ramp_id(i, ramp)>> >>)
        ramp_warnings(i, ramp) ==
            When(~too_steep(ramp) /\ steep(ramp),
                 << <<"{}: Slope {:.2f}% is steep, consider gentler slope",
                      ramp_id(i, ramp), slope_percent_2(ramp)>> >>)
        ramp_evidence(i, ramp) ==
            << <<ramp_id(i, ramp) \o "_slope_percent", slope_percent(ramp)>>,
               <<ramp_id(i, ramp) \o "_width_cm", width(ramp)>>,
               <<ramp_id(i, ramp) \o "_run_length_m", run_length(ramp)>>,
               <<ramp_id(i, ramp) \o "_has_landing", has_landing(ramp)>>,
               <<ramp_id(i, ramp) \o "_has_handrails", has_handrails(ramp)>> >>
        violations == ForEach(ramp_violations, ramps_data)
        warnings == ForEach(ramp_warnings, ramps_data)
        evidence == Dict(ForEach(ramp_evidence, ramps_data))
        passed == Len(violations) = 0
    IN  IF ~IsDict(data) \/ ~IsDict(building_data) \/ ~IsDict(accessibility_data)
        THEN AttributeError
        ELSE IF ramps_data = << >>
        THEN ValidationResult(self.rule_id, ~has_level_changes,
                              When(has_level_changes,
                                   << <<"Ramp required for level changes (Israeli accessibility law)">> >>),
                              << >>, Empty, self.severity)
        ELSE IF \E i \in 1..Len(ramps_data) : ~IsDict(ramps_data[i])
        THEN AttributeError
        ELSE ValidationResult(self.rule_id, passed, violations, warnings, evidence,
                              self.severity)

AccDoor002 ==
    BuildingRule("AccDoor002", "ACC-DOOR-002", "רוחב דלת נגישה",
                 "Accessible door width", "ACCESSIBILITY", "CRITICAL")

AccDoor002_validate(self, data) ==
    LET building_data == Get(data, "building", Empty)
        accessibility_data == Get(building_data, "accessibility", Empty)
        doors_data == Get(accessibility_data, "doors", << >>)
        door_id(i, door) == ItemId(door, "Door", i)
        door_type(door) == Get(door, "type", "entry")
        clear_width(door) == Get(door, "clear_width_cm", 0)
        min_width(door) == IF door_type(door) = "entry" THEN 9000 ELSE 8000
        threshold_height(door) == Get(door, "threshold_height_cm", 0)
        maneuvering_space(door) == Get(door, "maneuvering_space_cm", 0)
        has_lever_handle(door) == Get(door, "has_lever_handle", FALSE)
        is_fire_door(door) == Get(door, "is_fire_door", FALSE)
        has_auto_closer(door) == Get(door, "has_auto_closer", FALSE)
        closing_force(door) == Get(door, "closing_force_n", 0)
        door_violations(i, door) ==
            When(clear_width(door) < min_width(door),
                 << <<"{}: Clear width {}cm below minimum {}cm for {} door (Israeli accessibility law)",
                      door_id(i, door), clear_width(door), min_width(door),
                      door_type(door)>> >>)
            \o When(threshold_height(door) > 200,
                 << <<"{}: Threshold height {}cm exceeds maximum 2cm",
                      door_id(i, door), threshold_height(door)>> >>)
            \o When(maneuvering_space(door) < 15000,
                 << <<"{}: Maneuvering space {}cm below minimum 150cm",
                      door_id(i, door), maneuvering_space(door)>> >>)
            \o When(is_fire_door(door) /\ has_auto_closer(door) /\ closing_force(door) > 2200,
                 << <<"{}: Closing force {}N exceeds maximum 22N",
                      door_id(i, door), closing_force(door)>> >>)
        door_warnings(i, door) ==
            When(~has_lever_handle(door),
                 << <<"{}: Lever handles recommended for accessibility", door_id(i, door)>> >>)
        door_evidence(i, door) ==
            << <<door_id(i, door) \o "_clear_width_cm", clear_width(door)>>,
               <<door_id(i, door) \o "_type", door_type(door)>>,
               <<door_id(i, door) \o "_threshold_height_cm", threshold_height(door)>>,
               <<door_id(i, door) \o "_maneuvering_space_cm", maneuvering_space(door)>>,
               <<door_id(i, door) \o "_has_lever_handle", has_lever_handle(door)>> >>
            \o When(is_fire_door(door) /\ has_auto_closer(door),
                    << <<door_id(i, door) \o "_closing_force_n", closing_force(door)>> >>)
        violations == ForEach(door_violations, doors_data)
        warnings == ForEach(door_warnings, doors_data)
        evidence == Dict(ForEach(door_evidence, doors_data))
        passed == Len(violations) = 0
    IN  IF ~IsDict(data) \/ ~IsDict(building_data) \/ ~IsDict(accessibility_data)
        THEN AttributeError
        ELSE IF doors_data = << >>
        THEN ValidationResult(self.rule_id, FALSE,
                              << <<"No accessible door data provided">> >>,
                              << >>, Empty, self.severity)
        ELSE IF \E i \in 1..Len(doors_data) : ~IsDict(doors_data[i])
        THEN AttributeError
        ELSE ValidationResult(self.rule_id, passed, violations, warnings, evidence,
                              self.severity)

AccElev003 ==
    BuildingRule("AccElev003", "ACC-ELEV-003", "דרישות מעלית",
                 "Elevator requirements", "ACCESSIBILITY", "CRITICAL")

\* a faulty rule: an elevator is required whatever the number of floors
AccElev003_validate_always(self, data) ==
    LET building_data == Get(data, "building", Empty)
        elevator_data == Get(Get(building_data, "accessibility", Empty), "elevator", Empty)
        num_floors == Get(building_data, "num_floors", 0)
        has_elevator == Get(elevator_data, "has_elevator", FALSE)
        violations ==
            When(~has_elevator,
                 << <<"Elevator required for building with {} floors (>3) (Israeli accessibility law)",
                      num_floors>> >>)
    IN  ValidationResult(self.rule_id, Len(violations) = 0, violations, << >>,
                         Dict(<< <<"num_floors", num_floors>>,
                                 <<"has_elevator", has_elevator>> >>),
                         self.severity)

\* a faulty rule: an elevator is required from 3 floors on
AccElev003_validate_from_three(self, data) ==
    LET building_data == Get(data, "building", Empty)
        elevator_data == Get(Get(building_data, "accessibility", Empty), "elevator", Empty)
        num_floors == Get(building_data, "num_floors", 0)
        has_elevator == Get(elevator_data, "has_elevator", FALSE)
        violations ==
            When(num_floors >= 300 /\ ~has_elevator,
                 << <<"Elevator required for building with {} floors (>3) (Israeli accessibility law)",
                      num_floors>> >>)
    IN  ValidationResult(self.rule_id, Len(violations) = 0, violations, << >>,
                         Dict(<< <<"num_floors", num_floors>>,
                                 <<"has_elevator", has_elevator>> >>),
                         self.severity)

AccElev003_validate(self, data) ==
    LET building_data == Get(data, "building", Empty)
        accessibility_data == Get(building_data, "accessibility", Empty)
        elevator_data == Get(accessibility_data, "elevator", Empty)
        num_floors == Get(building_data, "num_floors", 0)
        has_elevator == Get(elevator_data, "has_elevator", FALSE)
        car_width == Get(elevator_data, "car_width_cm", 0)
        car_depth == Get(elevator_data, "car_depth_cm", 0)
        door_width == Get(elevator_data, "door_width_cm", 0)
        door_open_time == Get(elevator_data, "door_open_time_seconds", 0)
        has_braille_controls == Get(elevator_data, "has_braille_controls", FALSE)
        has_audio_announcements == Get(elevator_data, "has_audio_announcements", FALSE)
        button_height == Get(elevator_data, "button_height_cm", 0)
        early_evidence ==
            Dict(<< <<"num_floors", num_floors>>, <<"has_elevator", has_elevator>> >>)
        violations ==
            When(car_width < 11000 \/ car_depth < 14000,
                 << <<"Elevator car dimensions {}x{}cm below minimum 110x140cm (Israeli accessibility law)",
                      car_width, car_depth>> >>)
            \o When(door_width < 8000,
                 << <<"Elevator door width {}cm below minimum 80cm", door_width>> >>)
            \o When(~has_braille_controls,
                 << <<"Elevator must have Braille and tactile controls">> >>)
            \o When(~has_audio_announcements,
                 << <<"Elevator must have audio floor announcements">> >>)
            \o When(button_height < 9000 \/ button_height > 12000,
                 << <<"Elevator control button height {}cm outside range 90-120cm",
                      button_height>> >>)
        warnings ==
            When(door_open_time < 300,
                 << <<"Elevator door open time {}s below recommended 3s", door_open_time>> >>)
        evidence ==
            Dict(<< <<"num_floors", num_floors>>,
                    <<"has_elevator", has_elevator>>,
                    <<"car_width_cm", car_width>>,
                    <<"car_depth_cm", car_depth>>,
                    <<"door_width_cm", door_width>>,
                    <<"door_open_time_seconds", door_open_time>>,
                    <<"has_braille_controls", has_braille_controls>>,
                    <<"has_audio_announcements", has_audio_announcements>>,
                    <<"button_height_cm", button_height>> >>)
        passed == Len(violations) = 0
    IN  IF ~IsDict(data) \/ ~IsDict(building_data) \/ ~IsDict(accessibility_data)
           \/ ~IsDict(elevator_data)
        THEN AttributeError
        ELSE IF num_floors > 300 /\ ~has_elevator
        THEN ValidationResult(self.rule_id, FALSE,
                              << <<"Elevator required for building with {} floors (>3) (Israeli accessibility law)",
                                   num_floors>> >>,
                              << >>, early_evidence, self.severity)
        ELSE IF ~has_elevator
        THEN ValidationResult(self.rule_id, TRUE, << >>, << >>, early_evidence,
                              self.severity)
        ELSE ValidationResult(self.rule_id, passed, violations, warnings, evidence,
                              self.severity)

----------------------------------------------------------------------------
(* Environmental rules *)

EnvEnergy001 ==
    BuildingRule("EnvEnergy001", "ENV-ENERGY-001", "תקן בנייה ירוקה (ת\"י 5282)",
                 "Green building standard (SI 5282)", "ENVIRONMENTAL", "HIGH")

EnvEnergy001_validate(self, data) ==
    LET building_data == Get(data, "building", Empty)
        environmental_data == Get(building_data, "environmental", Empty)
        energy_data == Get(environmental_data, "energy", Empty)
        si5282_level == Get(energy_data, "si5282_level", "")
        valid_levels == {"basic", "intermediate", "advanced", "platinum"}
        wall_u_value == Get(energy_data, "wall_u_value", 0)
        roof_u_value == Get(energy_data, "roof_u_value", 0)
        window_u_value == Get(energy_data, "window_u_value", 0)
        has_solar_water == Get(energy_data, "has_solar_water_heating", FALSE)
        is_residential == "use_type" \in DOMAIN building_data
                          /\ building_data["use_type"] = "residential"
        led_coverage_percent == Get(energy_data, "led_coverage_percent", 0)
        renewable_capacity_kw == Get(energy_data, "renewable_capacity_kw", 0)
        floor_area == Get(building_data, "total_floor_area_m2", 0)
        renewable_per_m2 == QDiv(Num(renewable_capacity_kw), Num(floor_area))
        \* round(renewable_per_m2, 4) and f"{renewable_per_m2:.4f}", in ten-thousandths
        renewable_per_m2_4 == QRound(renewable_per_m2, 10000)
        violations ==
            When(wall_u_value > 50,
                 << <<"Wall U-value {} W/m2K exceeds maximum 0.5 W/m2K (SI 5282)",
                      wall_u_value>> >>)
            \o When(roof_u_value > 35,
                 << <<"Roof U-value {} W/m2K exceeds maximum 0.35 W/m2K (SI 5282)",
                      roof_u_value>> >>)
            \o When(window_u_value > 200,
                 << <<"Window U-value {} W/m2K exceeds maximum 2.0 W/m2K (SI 5282)",
                      window_u_value>> >>)
            \o When(is_residential /\ ~has_solar_water,
                 << <<"Solar water heating required for residential buildings (SI 5282)">> >>)
        warnings ==
            When(si5282_level # "" /\ si5282_level \notin valid_levels,
                 << <<"SI 5282 level '{}' not recognized. Valid: {}", si5282_level,
                      "basic, intermediate, advanced, platinum">> >>)
            \o When(led_coverage_percent < 8000,
                 << <<"LED coverage {}% below recommended 80% (SI 5282)",
                      led_coverage_percent>> >>)
            \o When(floor_area > 0 /\ QLess(renewable_per_m2, <<1, 100>>),
                 << <<"Renewable energy capacity {:.4f} kW/m2 below recommended 0.01 kW/m2 (SI 5282)",
                      renewable_per_m2_4>> >>)
            \o When(~Get(energy_data, "has_low_flow_fixtures", FALSE),
                 << <<"Low-flow water fixtures recommended (SI 5282)">> >>)
        evidence ==
            Dict(<< <<"si5282_level", si5282_level>>,
                    <<"wall_u_value", wall_u_value>>,
                    <<"roof_u_value", roof_u_value>>,
                    <<"window_u_value", window_u_value>>,
                    <<"has_solar_water_heating", has_solar_water>>,
                    <<"led_coverage_percent", led_coverage_percent>>,
                    <<"renewable_capacity_kw", renewable_capacity_kw>> >>
                 \o When(floor_area > 0, << <<"renewable_kw_per_m2", renewable_per_m2_4>> >>)
                 \o << <<"has_low_flow_fixtures",
                         Get(energy_data, "has_low_flow_fixtures", FALSE)>> >>)
        passed == Len(violations) = 0
    IN  IF ~IsDict(data) \/ ~IsDict(building_data) \/ ~IsDict(environmental_data)
           \/ ~IsDict(energy_data)
        THEN AttributeError
        ELSE ValidationResult(self.rule_id, passed, violations, warnings, evidence,
                              self.severity)

EnvNoise002 ==
    BuildingRule("EnvNoise002", "ENV-NOISE-002", "בידוד אקוסטי",
                 "Acoustic insulation", "ENVIRONMENTAL", "MEDIUM")

EnvNoise002_validate(self, data) ==
    LET building_data == Get(data, "building", Empty)
        environmental_data == Get(building_data, "environmental", Empty)
        acoustic_data == Get(environmental_data, "acoustic", Empty)
        location_data == Get(data, "location", Empty)
        wall_rw == Get(acoustic_data, "wall_rw_db", 0)
        floor_rw == Get(acoustic_data, "floor_rw_db", 0)
        min_wall_rw == 5200
        min_floor_rw == 5200
        floor_ln == Get(acoustic_data, "floor_ln_db", 0)
        max_ln == 5800
        facade_rw == Get(acoustic_data, "facade_rw_db", 0)
        external_noise == Get(location_data, "external_noise_db", 0)
        target_indoor == 3500
        required_facade_rw == external_noise - target_indoor
        window_rw == Get(acoustic_data, "window_rw_db", 0)
        min_window_rw == 3000
        wall_below == wall_rw > 0 /\ wall_rw < min_wall_rw
        violations ==
            When(wall_below,
                 << <<"Wall sound insulation Rw {}dB below minimum {}dB (SI 1004)",
                      wall_rw, min_wall_rw>> >>)
            \o When(floor_rw > 0 /\ floor_rw < min_floor_rw,
                 << <<"Floor sound insulation Rw {}dB below minimum {}dB (SI 1004)",
                      floor_rw, min_floor_rw>> >>)
            \o When(floor_ln > max_ln,
                 << <<"Floor impact sound Ln {}dB exceeds maximum {}dB (SI 1004)",
                      floor_ln, max_ln>> >>)
            \o When(external_noise > 0 /\ facade_rw < required_facade_rw,
                 << <<"Facade sound insulation Rw {}dB below required {}dB for external noise {}dB (SI 1004)",
                      facade_rw, required_facade_rw, external_noise>> >>)
        warnings ==
            When(~wall_below /\ wall_rw > 0 /\ wall_rw < min_wall_rw + 300,
                 << <<"Wall sound insulation Rw {}dB is minimal, recommend >={}dB",
                      wall_rw, min_wall_rw + 300>> >>)
            \o When(window_rw > 0 /\ window_rw < min_window_rw,
                 << <<"Window sound insulation Rw {}dB below recommended {}dB",
                      window_rw, min_window_rw>> >>)
        evidence ==
            Dict(<< <<"wall_rw_db", wall_rw>>,
                    <<"floor_rw_db", floor_rw>>,
                    <<"floor_ln_db", floor_ln>>,
                    <<"facade_rw_db", facade_rw>>,
                    <<"external_noise_db", external_noise>> >>
                 \o When(external_noise > 0,
                         << <<"required_facade_rw_db", required_facade_rw>> >>)
                 \o << <<"window_rw_db", window_rw>> >>)
        passed == Len(violations) = 0
    IN  IF ~IsDict(data) \/ ~IsDict(building_data) \/ ~IsDict(environmental_data)
           \/ ~IsDict(acoustic_data) \/ ~IsDict(location_data)
        THEN AttributeError
        ELSE ValidationResult(self.rule_id, passed, violations, warnings, evidence,
                              self.severity)

----------------------------------------------------------------------------
(* Rules engine.  self.rules is a dict, which keeps insertion order: the     *)
(* sequence of its <<rule_id, rule>> items.  The counts of a summary are     *)
(* plain integers; pass_rate_percent is held in hundredths of a percent.     *)

\* rule.validate(data), dispatched on the class of the rule
Validate(rule, d) ==
    CASE rule.cls = "StrLoad001" -> StrLoad001_validate(rule, d)
      [] rule.cls = "StrFound002" -> StrFound002_validate(rule, d)
      [] rule.cls = "StrColumn003" -> StrColumn003_validate(rule, d)
      [] rule.cls = "StrBeam004" -> StrBeam004_validate(rule, d)
      [] rule.cls = "StrSlab005" -> StrSlab005_validate(rule, d)
      [] rule.cls = "ZonSetback001" -> ZonSetback001_validate(rule, d)
      [] rule.cls = "ZonHeight002" -> ZonHeight002_validate(rule, d)
      [] rule.cls = "ZonCoverage003" -> ZonCoverage003_validate(rule, d)
      [] rule.cls = "ZonFar004" -> ZonFar004_validate(rule, d)
      [] rule.cls = "ZonParking005" -> ZonParking005_validate(rule, d)
      [] rule.cls = "SafFire001" -> SafFire001_validate(rule, d)
      [] rule.cls = "SafEvac002" -> SafEvac002_validate(rule, d)
      [] rule.cls = "SafStair003" -> SafStair003_validate(rule, d)
      [] rule.cls = "SafRail004" -> SafRail004_validate(rule, d)
      [] rule.cls = "SafLight005" -> SafLight005_validate(rule, d)
      [] rule.cls = "AccRamp001" -> AccRamp001_validate(rule, d)
      [] rule.cls = "AccDoor002" -> AccDoor002_validate(rule, d)
      [] rule.cls = "AccElev003" -> AccElev003_validate(rule, d)
      [] rule.cls = "EnvEnergy001" -> EnvEnergy001_validate(rule, d)
      [] rule.cls = "EnvNoise002" -> EnvNoise002_validate(rule, d)

\* a faulty dict: a new key goes to the front
SetItem_front(items, key, value) ==
    IF \E i \in 1..Len(items) : items[i][1] = key
    THEN [i \in 1..Len(items) |-> IF items[i][1] = key THEN <<key, value>> ELSE items[i]]
    ELSE <<<<key, value>>>> \o items

\* items[key] = value on an insertion-ordered dict
SetItem(items, key, value) ==
    IF \E i \in 1..Len(items) : items[i][1] = key
    THEN [i \in 1..Len(items) |-> IF items[i][1] = key THEN <<key, value>> ELSE items[i]]
    ELSE Append(items, <<key, value>>)

rule_classes ==
    <<StrLoad001, StrFound002, StrColumn003, StrBeam004, StrSlab005,
      ZonSetback001, ZonHeight002, ZonCoverage003, ZonFar004, ZonParking005,
      SafFire001, SafEvac002, SafStair003, SafRail004, SafLight005,
      AccRamp001, AccDoor002, AccElev003,
      EnvEnergy001, EnvNoise002>>

RECURSIVE load_rules_loop(_, _)
load_rules_loop(items, n) ==
    IF n = 0 THEN items
    ELSE SetItem(load_rules_loop(items, n - 1), rule_classes[n].rule_id, rule_classes[n])

\* the rules dict load_rules() leaves in an engine whose dict was empty
load_rules == load_rules_loop(<< >>, Len(rule_classes))

\* RulesEngine(): self.rules = {} then self.load_rules()
RulesEngine == [rules |-> load_rules]

RECURSIVE Sum(_, _)
Sum(F(_), s) == IF s = << >> THEN 0 ELSE F(Head(s)) + Sum(F, Tail(s))

\* a faulty tally: every violation string of a failing result is counted
count_violations(violations_by_severity, result) ==
    IF ~result.passed
    THEN Put(violations_by_severity, result.severity,
             Get(violations_by_severity, result.severity, 0) + Len(result.violations))
    ELSE violations_by_severity

\* the body of the loop over results that fills violations_by_severity
count_failed(violations_by_severity, result) ==
    IF ~result.passed
    THEN Put(violations_by_severity, result.severity,
             Get(violations_by_severity, result.severity, 0) + 1)
    ELSE violations_by_severity

\* the violations_by_severity dict after the first n results
RECURSIVE CountFailedBySeverity(_, _)
CountFailedBySeverity(results, n) ==
    IF n = 0 THEN Empty
    ELSE count_failed(CountFailedBySeverity(results, n - 1), results[n])

\* a faulty rate: the quotient is taken by floor division
pass_rate_percent_floor(total_passed, total_rules) ==
    IF total_rules > 0 THEN (total_passed \div total_rules) * 10000 ELSE 0

\* round((total_passed / total_rules * 100) if total_rules > 0 else 0, 2), in hundredths
pass_rate_percent(total_passed, total_rules) ==
    IF total_rules > 0
    THEN QRound(QMul(Fraction(total_passed, total_rules), <<100, 1>>), 100)
    ELSE 0

generate_summary(results) ==
    LET total_rules == Len(results)
        passed_one(r) == IF r.passed THEN 1 ELSE 0
        violations_len(r) == Len(r.violations)
        warnings_len(r) == Len(r.warnings)
        total_passed == Sum(passed_one, results)
        total_failed == total_rules - total_passed
    IN  [total_rules |-> total_rules,
         total_passed |-> total_passed,
         total_failed |-> total_failed,
         pass_rate_percent |-> pass_rate_percent(total_passed, total_rules),
         total_violations |-> Sum(violations_len, results),
         total_warnings |-> Sum(warnings_len, results),
         violations_by_severity |-> CountFailedBySeverity(results, Len(results))]

\* a faulty handler: the synthetic result keeps the declared severity of the rule
except_Exception_declared(rule_id, rule, result) ==
    IF IsException(result)
    THEN [rule_id |-> rule_id,
          passed |-> FALSE,
          violations |-> << <<"Validation error: {}", result.exception>> >>,
          warnings |-> << >>,
          evidence |-> Empty,
          severity |-> RuleSeverity[rule.severity]]
    ELSE ValidationResult_to_dict(result)

\* what the try/except appends to results: result is what rule.validate(data)
\* returned or raised
except_Exception(rule_id, rule, result) ==
    IF IsException(result)
    THEN [rule_id |-> rule_id,
          passed |-> FALSE,
          violations |-> << <<"Validation error: {}", result.exception>> >>,
          warnings |-> << >>,
          evidence |-> Empty,
          severity |-> RuleSeverity["CRITICAL"]]
    ELSE ValidationResult_to_dict(result)

\* the try/except around rule.validate(data) in validate_all and validate_by_category
Evaluate(rule_id, rule, d) == except_Exception(rule_id, rule, Validate(rule, d))

\* a faulty engine: every result carries the instant of its evaluation
validate_all_stamped(results, now) ==
    LET stamped(i, result) == <<Put(result, "timestamp", now)>>
    IN  [results |-> ForEach(stamped, results),
         summary |-> generate_summary(results),
         timestamp |-> now]

\* the mapping validate_all returns for the results of its loop
validate_all_return(results, now) ==
    [results |-> results,
     summary |-> generate_summary(results),
     timestamp |-> now]

validate_all(self, d, now) ==
    LET one(i, item) == <<Evaluate(item[1], item[2], d)>>
    IN  validate_all_return(ForEach(one, self.rules), now)

\* str.lower() on the category strings of CategoryInputs
Lower(s) ==
    CASE s = "STRUCTURAL" -> "structural"
      [] s = "Safety" -> "safety"
      [] s = "Invalid" -> "invalid"
      [] OTHER -> s

\* RuleCategory(value) for the value of a member
RuleCategory_call(value) ==
    CHOOSE member \in DOMAIN RuleCategory : RuleCategory[member] = value

\* what RuleCategory(value) raises for a value of no member
ValueError(value) == [exception |-> <<"{} is not a valid RuleCategory", value>>]

\* a faulty engine: the ValueError of the enum lookup is not caught
except_ValueError_uncaught(category, error) == error

\* the mapping the except ValueError branch returns
except_ValueError(category, error) ==
    [error |-> <<"Invalid category: {}", category>>,
     valid_categories |->
         [i \in 1..Len(RuleCategoryMembers) |-> RuleCategory[RuleCategoryMembers[i]]]]

\* the mapping validate_by_category returns for the results of its loop
validate_by_category_return(category, results, now) ==
    [category |-> category,
     results |-> results,
     summary |-> generate_summary(results),
     timestamp |-> now]

\* a faulty engine: the handler of the by-category loop keeps the declared
\* severity of the raising rule, unlike the one of validate_all
validate_by_category_declared(self, category, d, now) ==
    LET one(i, item) ==
            When(item[2].category = RuleCategory_call(Lower(category)),
                 <<except_Exception_declared(item[1], item[2], Validate(item[2], d))>>)
    IN  IF Lower(category) \notin Values(RuleCategory)
        THEN except_ValueError(category, ValueError(Lower(category)))
        ELSE validate_by_category_return(category, ForEach(one, self.rules), now)

validate_by_category(self, category, d, now) ==
    LET one(i, item) == When(item[2].category = RuleCategory_call(Lower(category)),
                             <<Evaluate(item[1], item[2], d)>>)
    IN  IF Lower(category) \notin Values(RuleCategory)
        THEN except_ValueError(category, ValueError(Lower(category)))
        ELSE validate_by_category_return(category, ForEach(one, self.rules), now)

get_rule(self, rule_id) ==
    IF \E i \in 1..Len(self.rules) : self.rules[i][1] = rule_id
    THEN self.rules[CHOOSE i \in 1..Len(self.rules) : self.rules[i][1] = rule_id][2]
    ELSE NoneValue

\* the dict of counts of key(rule) after the first n rules
RECURSIVE CountBy(_, _, _)
CountBy(key(_), items, n) ==
    IF n = 0 THEN Empty
    ELSE LET counts == CountBy(key, items, n - 1)
             k == key(items[n][2])
         IN  Put(counts, k, Get(counts, k, 0) + 1)

\* a faulty summary: a rule is counted under its category only when the category
\* has not been seen, and the list comes last rule first
get_summary_first_seen(self) ==
    LET n == Len(self.rules)
        cats == {RuleCategory[self.rules[i][2].category] : i \in 1..n}
        sevs == {RuleSeverity[self.rules[i][2].severity] : i \in 1..n}
    IN  [total_rules |-> n,
         rules_by_category |-> [c \in cats |-> 1],
         rules_by_severity |-> [s \in sevs |-> 1],
         rules_list |-> [i \in 1..n |-> BuildingRule_to_dict(self.rules[n + 1 - i][2])]]

get_summary(self) ==
    LET cat(rule) == RuleCategory[rule.category]
        sev(rule) == RuleSeverity[rule.severity]
        entry(i, item) == <<BuildingRule_to_dict(item[2])>>
    IN  [total_rules |-> Len(self.rules),
         rules_by_category |-> CountBy(cat, self.rules, Len(self.rules)),
         rules_by_severity |-> CountBy(sev, self.rules, Len(self.rules)),
         rules_list |-> ForEach(entry, self.rules)]

----------------------------------------------------------------------------
(* Violation scorer (analysis_service.detect_violations).  The report text   *)
(* built by generate_report is left out of the returned mapping.             *)

severity_scores == [critical |-> 100, high |-> 75, medium |-> 50, low |-> 25]

\* a faulty aggregation: one entry for a failing result, whatever its violations
violation_entries_per_rule(i, result) ==
    When(~Get(result, "passed", TRUE),
         << [rule_id |-> result.rule_id, severity |-> result.severity,
             message |-> Get(result, "violations", << >>)] >>)

\* what the loop over results adds to all_violations for one result
violation_entries(i, result) ==
    LET entry(j, violation) ==
            << [rule_id |-> result.rule_id, severity |-> result.severity,
                message |-> violation] >>
    IN  When(~Get(result, "passed", TRUE),
             ForEach(entry, Get(result, "violations", << >>)))

\* a faulty flag: any collected violation raises it
has_critical_violations_any(all_violations) == Len(all_violations) > 0

\* any(v['severity'] == 'critical' for v in all_violations)
has_critical_violations(all_violations) ==
    \E i \in 1..Len(all_violations) : all_violations[i].severity = "critical"

\* detect_violations from the mapping validate_all returned
aggregate_violations(validation_results) ==
    LET results == Get(validation_results, "results", << >>)
        warning_entries(i, result) ==
            LET entry(j, warning) ==
                    << [rule_id |-> result.rule_id, message |-> warning] >>
            IN  ForEach(entry, Get(result, "warnings", << >>))
        all_violations == ForEach(violation_entries, results)
        all_warnings == ForEach(warning_entries, results)
        score(v) == Get(severity_scores, v.severity, 0)
    IN  [validation_results |-> validation_results,
         violations |-> all_violations,
         warnings |-> all_warnings,
         total_severity |-> Sum(score, all_violations),
         has_critical_violations |-> has_critical_violations(all_violations),
         passed |-> Len(all_violations) = 0]

\* detect_violations(data, rules) with a real engine; rules = None builds one
detect_violations(d, engine, now) ==
    aggregate_violations(
        validate_all(IF IsDict(engine) THEN engine ELSE RulesEngine, d, now))

----------------------------------------------------------------------------
(* Analysis service (analysis_service.AnalysisService): the aggregation of   *)
(* the per-file results of process_pdf and the validation it runs on the     *)
(* merged dimensions.  A service is the mapping of its rules_engine field.   *)

DimensionCategories == {"setbacks", "heights", "areas", "lengths"}

\* dict.update
update(d, other) ==
    [k \in DOMAIN d \cup DOMAIN other |-> IF k \in DOMAIN other THEN other[k] ELSE d[k]]

\* all_dimensions after the loop over the first n results
RECURSIVE merge_dimensions(_, _)
merge_dimensions(results, n) ==
    IF n = 0
    THEN [setbacks |-> Empty, heights |-> Empty, areas |-> Empty, lengths |-> Empty]
    ELSE LET all_dimensions == merge_dimensions(results, n - 1)
             result == results[n]
         IN  IF "dimensions" \in DOMAIN result
             THEN [category \in DimensionCategories |->
                       IF category \in DOMAIN result.dimensions
                       THEN update(all_dimensions[category],
                                   result.dimensions[category])
                       ELSE all_dimensions[category]]
             ELSE all_dimensions

\* a faulty condition: validation runs only when every category has data
any_values_all(all_dimensions) ==
    \A category \in DOMAIN all_dimensions : all_dimensions[category] # Empty

\* any(all_dimensions.values())
any_values(all_dimensions) ==
    \E category \in DOMAIN all_dimensions : all_dimensions[category] # Empty

\* AnalysisService._build_validation_data
build_validation_data(dimensions) ==
    LET heights == Get(dimensions, "heights", Empty)
        areas == Get(dimensions, "areas", Empty)
        building_height == Get(heights, "building", 0)
        \* max(1, int(building_height / 3)) when building_height > 0
        num_floors ==
            IF building_height > 0
            THEN 100 * Max(1, QInt(QDiv(Num(building_height), <<3, 1>>)))
            ELSE 0
    IN  [building |-> [setbacks |-> Get(dimensions, "setbacks", Empty),
                       height_m |-> building_height,
                       num_floors |-> num_floors,
                       total_floor_area_m2 |-> Get(areas, "total", 0),
                       footprint_m2 |-> Get(areas, "built", 0),
                       use_type |-> "residential"],
         plot |-> [area_m2 |-> Get(areas, "plot", 0),
                   required_setbacks |-> Empty,
                   max_height_m |-> 0,
                   max_coverage_percent |-> 0,
                   max_far |-> 0],
         structural |-> [columns |-> << >>, beams |-> << >>, slabs |-> << >>],
         location |-> Empty]

\* aggregated after the try block stored the validation
aggregated_validation(aggregated, validation) ==
    [aggregated EXCEPT !.validation = validation,
                       !.violations = Get(validation, "violations", << >>),
                       !.warnings = Get(validation, "warnings", << >>)]

\* AnalysisService.aggregate_results; the dimensions process_pdf extracts are
\* mappings of numbers, on which the try block does not raise
aggregate_results(service, results, now) ==
    LET classification(i, result) ==
            When("classification" \in DOMAIN result, <<result.classification>>)
        successful(result) == IF Get(result, "status", "") = "success" THEN 1 ELSE 0
        all_dimensions == merge_dimensions(results, Len(results))
        aggregated ==
            [classifications |-> ForEach(classification, results),
             dimensions |-> all_dimensions,
             validation |-> Empty,
             violations |-> << >>,
             warnings |-> << >>,
             metadata |-> [total_files |-> Len(results),
                           successful_files |-> Sum(successful, results)]]
    IN  IF IsDict(service.rules_engine) /\ any_values(all_dimensions)
        THEN aggregated_validation(
                 aggregated,
                 detect_violations(build_validation_data(all_dimensions),
                                   service.rules_engine, now))
        ELSE aggregated

----------------------------------------------------------------------------
(* Datasets the callers submit *)

\* tests/conftest.py, sample_building_data
sample_building_data ==
    [building |-> [use_type |-> "residential",
                   num_floors |-> 400,
                   height_m |-> 1200,
                   footprint_m2 |-> 50000,
                   total_floor_area_m2 |-> 200000,
                   typical_floor_area_m2 |-> 50000,
                   max_occupancy |-> 10000,
                   has_level_changes |-> TRUE,
                   has_roof_access |-> TRUE,
                   num_units |-> 1000,
                   residential_area_m2 |-> 180000,
                   commercial_area_m2 |-> 20000,
                   service_area_m2 |-> 0,
                   setbacks |-> [north |-> 350,
                                 south |-> 300,
                                 east |-> 250,
                                 west |-> 250,
                                 front |-> 400,
                                 rear |-> 300,
                                 side |-> 250],
                   parking |-> [total_spaces |-> 1500, accessible_spaces |-> 100],
                   safety |-> [fire_suppression |-> [has_sprinkler_system |-> TRUE,
                                                     has_fire_extinguishers |-> TRUE,
                                                     has_fire_alarm |-> TRUE,
                                                     has_fire_rated_elements |-> TRUE],
                               evacuation |-> [num_emergency_exits |-> 200,
                                               exit_widths_cm |-> <<12000, 12000>>,
                                               max_travel_distance_m |-> 2500,
                                               has_emergency_lighting |-> TRUE],
                               stairways |-> <<[id |-> "Stair-1",
                                                tread_depth_cm |-> 2600,
                                                riser_height_cm |-> 1800,
                                                width_cm |-> 13000,
                                                headroom_cm |-> 22000,
                                                landing_depth_cm |-> 13000]>>,
                               railings |-> [balcony_height_cm |-> 11500,
                                             stair_height_cm |-> 9500,
                                             bar_spacing_cm |-> 1000,
                                             load_capacity_kn |-> 200,
                                             has_roof_railing |-> TRUE],
                               emergency_lighting |-> [has_system |-> TRUE,
                                                       backup_duration_minutes |-> 12000,
                                                       min_illumination_lux |-> 150,
                                                       has_exit_signs |-> TRUE,
                                                       escape_route_coverage_percent |-> 10000]],
                   accessibility |-> [ramps |-> <<[id |-> "Ramp-1",
                                                   rise_m |-> 30,
                                                   run_m |-> 500,
                                                   width_cm |-> 12000,
                                                   run_length_m |-> 500,
                                                   has_landing |-> FALSE,
                                                   has_handrails |-> TRUE]>>,
                                      doors |-> <<[id |-> "Door-1",
                                                   type |-> "entry",
                                                   clear_width_cm |-> 9500,
                                                   threshold_height_cm |-> 150,
                                                   maneuvering_space_cm |-> 16000,
                                                   has_lever_handle |-> TRUE,
                                                   is_fire_door |-> FALSE]>>,
                                      elevator |-> [has_elevator |-> TRUE,
                                                    car_width_cm |-> 12000,
                                                    car_depth_cm |-> 15000,
                                                    door_width_cm |-> 8500,
                                                    door_open_time_seconds |-> 350,
                                                    has_braille_controls |-> TRUE,
                                                    has_audio_announcements |-> TRUE,
                                                    button_height_cm |-> 10500]],
                   environmental |-> [energy |-> [si5282_level |-> "intermediate",
                                                  wall_u_value |-> 45,
                                                  roof_u_value |-> 30,
                                                  window_u_value |-> 180,
                                                  has_solar_water_heating |-> TRUE,
                                                  led_coverage_percent |-> 9000,
                                                  renewable_capacity_kw |-> 2500,
                                                  has_low_flow_fixtures |-> TRUE],
                                      acoustic |-> [wall_rw_db |-> 5400,
                                                    floor_rw_db |-> 5300,
                                                    floor_ln_db |-> 5600,
                                                    facade_rw_db |-> 4000,
                                                    window_rw_db |-> 3200]]],
     plot |-> [area_m2 |-> 100000,
               required_setbacks |-> [north |-> 300,
                                      south |-> 300,
                                      east |-> 200,
                                      west |-> 200,
                                      front |-> 400,
                                      rear |-> 300],
               max_height_m |-> 1500,
               max_floors |-> 500,
               max_coverage_percent |-> 6000,
               max_far |-> 250],
     structural |-> [dead_load_kn_m2 |-> 400,
                     live_load_kn_m2 |-> 250,
                     wind_load_kn_m2 |-> 80,
                     seismic_coefficient |-> 15,
                     foundation |-> [depth_m |-> 150,
                                     soil_type |-> "sand",
                                     bearing_capacity_kn_m2 |-> 15000],
                     columns |-> <<[id |-> "Col-1", width_cm |-> 3000, depth_cm |-> 3500], [id |-> "Col-2", width_cm |-> 3000, depth_cm |-> 3000]>>,
                     beams |-> <<[id |-> "Beam-1",
                                  width_cm |-> 2500,
                                  height_cm |-> 5000,
                                  span_m |-> 500]>>,
                     slabs |-> <<[id |-> "Slab-1",
                                  thickness_cm |-> 1800,
                                  span_m |-> 450,
                                  type |-> "solid"]>>],
     location |-> [seismic_zone |-> "moderate", external_noise_db |-> 7000]]

\* tests/conftest.py, failing_building_data
failing_building_data ==
    [building |-> [use_type |-> "commercial",
                   num_floors |-> 600,
                   height_m |-> 1800,
                   footprint_m2 |-> 70000,
                   total_floor_area_m2 |-> 300000,
                   typical_floor_area_m2 |-> 50000,
                   max_occupancy |-> 20000,
                   has_level_changes |-> TRUE,
                   has_roof_access |-> TRUE,
                   num_units |-> 0,
                   setbacks |-> [north |-> 200,
                                 south |-> 150,
                                 east |-> 100,
                                 west |-> 100,
                                 front |-> 250],
                   parking |-> [total_spaces |-> 500, accessible_spaces |-> 0],
                   safety |-> [fire_suppression |-> [has_sprinkler_system |-> FALSE,
                                                     has_fire_extinguishers |-> FALSE,
                                                     has_fire_alarm |-> FALSE,
                                                     has_fire_rated_elements |-> FALSE],
                               evacuation |-> [num_emergency_exits |-> 100,
                                               exit_widths_cm |-> <<8000>>,
                                               max_travel_distance_m |-> 3500,
                                               has_emergency_lighting |-> FALSE],
                               stairways |-> <<[id |-> "Stair-1",
                                                tread_depth_cm |-> 2300,
                                                riser_height_cm |-> 2100,
                                                width_cm |-> 10000,
                                                headroom_cm |-> 20000,
                                                landing_depth_cm |-> 9000]>>,
                               railings |-> [balcony_height_cm |-> 10000,
                                             stair_height_cm |-> 8500,
                                             bar_spacing_cm |-> 1500,
                                             load_capacity_kn |-> 120,
                                             has_roof_railing |-> FALSE],
                               emergency_lighting |-> [has_system |-> FALSE,
                                                       backup_duration_minutes |-> 0,
                                                       min_illumination_lux |-> 0,
                                                       has_exit_signs |-> FALSE,
                                                       escape_route_coverage_percent |-> 0]],
                   accessibility |-> [ramps |-> << >>,
                                      doors |-> <<[id |-> "Door-1",
                                                   type |-> "entry",
                                                   clear_width_cm |-> 7500,
                                                   threshold_height_cm |-> 300,
                                                   maneuvering_space_cm |-> 10000,
                                                   has_lever_handle |-> FALSE,
                                                   is_fire_door |-> TRUE,
                                                   has_auto_closer |-> TRUE,
                                                   closing_force_n |-> 3000]>>,
                                      elevator |-> [has_elevator |-> FALSE]],
                   environmental |-> [energy |-> [si5282_level |-> "",
                                                  wall_u_value |-> 80,
                                                  roof_u_value |-> 60,
                                                  window_u_value |-> 250,
                                                  has_solar_water_heating |-> FALSE,
                                                  led_coverage_percent |-> 3000,
                                                  renewable_capacity_kw |-> 500,
                                                  has_low_flow_fixtures |-> FALSE],
                                      acoustic |-> [wall_rw_db |-> 4800,
                                                    floor_rw_db |-> 4900,
                                                    floor_ln_db |-> 6200,
                                                    facade_rw_db |-> 3000,
                                                    window_rw_db |-> 2500]]],
     plot |-> [area_m2 |-> 100000,
               required_setbacks |-> [north |-> 300,
                                      south |-> 300,
                                      east |-> 200,
                                      west |-> 200,
                                      front |-> 400,
                                      rear |-> 300],
               max_height_m |-> 1500,
               max_floors |-> 500,
               max_coverage_percent |-> 5000,
               max_far |-> 200],
     structural |-> [dead_load_kn_m2 |-> 300,
                     live_load_kn_m2 |-> 150,
                     wind_load_kn_m2 |-> 50,
                     seismic_coefficient |-> 8,
                     foundation |-> [depth_m |-> 80,
                                     soil_type |-> "clay",
                                     bearing_capacity_kn_m2 |-> 8000],
                     columns |-> <<[id |-> "Col-1", width_cm |-> 2000, depth_cm |-> 2000]>>,
                     beams |-> <<[id |-> "Beam-1",
                                  width_cm |-> 1800,
                                  height_cm |-> 3500,
                                  span_m |-> 600]>>,
                     slabs |-> <<[id |-> "Slab-1",
                                  thickness_cm |-> 1000,
                                  span_m |-> 500,
                                  type |-> "solid"]>>],
     location |-> [seismic_zone |-> "high", external_noise_db |-> 8000]]

\* tests/conftest.py, minimal_building_data
minimal_building_data ==
    [building |-> [use_type |-> "residential",
                   num_floors |-> 100,
                   height_m |-> 300,
                   footprint_m2 |-> 10000,
                   total_floor_area_m2 |-> 10000,
                   setbacks |-> Empty],
     plot |-> [area_m2 |-> 50000],
     structural |-> Empty]

\* tests/test_rules_engine.py, test_zero_values
zero_values_data ==
    [building |-> [num_floors |-> 0, height_m |-> 0, footprint_m2 |-> 0],
     plot |-> [area_m2 |-> 0],
     structural |-> [dead_load_kn_m2 |-> 0, live_load_kn_m2 |-> 0]]

\* d with the value at a path of keys replaced, as d[k1][k2] = v does,
\* creating the mappings on the way that are missing
RECURSIVE SetPath(_, _, _)
SetPath(d, path, v) ==
    IF Len(path) = 1 THEN Put(d, path[1], v)
    ELSE Put(d, path[1], SetPath(Get(d, path[1], Empty), Tail(path), v))

BaseDatasets ==
    {Empty, sample_building_data, failing_building_data, minimal_building_data,
     zero_values_data}

\* malformed submissions: a section that is None instead of a mapping
NoneSections ==
    {<<"building">>, <<"plot">>, <<"structural">>, <<"location">>,
     <<"building", "parking">>, <<"building", "safety">>,
     <<"building", "environmental">>, <<"building", "accessibility", "elevator">>,
     <<"structural", "foundation">>}

\* the submissions in which one section is made None
FaultBases == {Empty, sample_building_data}

Datasets ==
    BaseDatasets \cup {NoneValue}
    \cup {SetPath(d, path, NoneValue) : d \in FaultBases, path \in NoneSections}

CategoryInputs ==
    {"structural", "zoning", "safety", "accessibility", "environmental",
     "STRUCTURAL", "Safety", "Invalid", "nonsense", ""}

RuleIdInputs == {"STR-LOAD-001", "ENV-NOISE-002", "NO-SUCH-RULE"}

\* the instants _get_timestamp() can return
MaxClock == 2

\* how many of the latest consecutive validate_all answers are remembered
MaxHistory == 2

\* the longest result list a mocked engine returns
MaxBatch == 3

\* the most violations one mocked result carries
MaxViolations == 2

----------------------------------------------------------------------------
(* The engine and its callers.  history is the record an observer keeps of  *)
(* the results lists that consecutive validate_all calls returned for the   *)
(* dataset in hand, oldest first; a call of another kind or a new dataset   *)
(* empties it.  The program does not read it.                               *)

Init ==
    /\ rules = RulesEngine.rules
    /\ dataset = Empty
    /\ op = "init"
    /\ arg = Empty
    /\ response = Empty
    /\ history = << >>

self == [rules |-> rules]

\* the last MaxHistory entries of the history with one more entry
Remember(results) ==
    LET all == Append(history, results)
    IN  IF Len(all) > MaxHistory THEN Tail(all) ELSE all

\* a caller obtains the dataset of its next submission
Submit(d) ==
    /\ dataset' = d
    /\ op' = "submit"
    /\ arg' = Empty
    /\ response' = Empty
    /\ history' = << >>
    /\ UNCHANGED rules

ValidateAllCall(now) ==
    /\ op' = "validate_all"
    /\ arg' = Empty
    /\ response' = validate_all(self, dataset, now)
    /\ history' = Remember(response'.results)
    /\ UNCHANGED <<rules, dataset>>

ValidateByCategoryCall(category, now) ==
    /\ op' = "validate_by_category"
    /\ arg' = [category |-> category]
    /\ response' = validate_by_category(self, category, dataset, now)
    /\ history' = << >>
    /\ UNCHANGED <<rules, dataset>>

GetRuleCall(rule_id) ==
    /\ op' = "get_rule"
    /\ arg' = [rule_id |-> rule_id]
    /\ response' = get_rule(self, rule_id)
    /\ history' = << >>
    /\ UNCHANGED <<rules, dataset>>

GetSummaryCall ==
    /\ op' = "get_summary"
    /\ arg' = Empty
    /\ response' = get_summary(self)
    /\ history' = << >>
    /\ UNCHANGED <<rules, dataset>>

DetectViolationsCall(engine, now) ==
    /\ op' = "detect_violations"
    /\ arg' = Empty
    /\ response' = detect_violations(dataset, engine, now)
    /\ history' = << >>
    /\ UNCHANGED <<rules, dataset>>

Next ==
    \/ \E d \in Datasets : Submit(d)
    \/ \E now \in 1..MaxClock : ValidateAllCall(now)
    \/ \E category \in CategoryInputs, now \in 1..MaxClock :
           ValidateByCategoryCall(category, now)
    \/ \E rule_id \in RuleIdInputs : GetRuleCall(rule_id)
    \/ GetSummaryCall
    \/ \E engine \in {self, NoneValue}, now \in 1..MaxClock :
           DetectViolationsCall(engine, now)

Spec == Init /\ [][Next]_vars

----------------------------------------------------------------------------
(* The reductions over the result lists of a mocked engine, as the tests of *)
(* detect_violations build them: arg is the list the mock will return.      *)

Severities == {RuleSeverity[member] : member \in DOMAIN RuleSeverity}

\* passed flag, number of violations and number of warnings of a mocked result;
\* a mock may return a passing result that lists a violation
MockOutcomes ==
    {<<TRUE, 0, 1>>, <<TRUE, 1, 0>>} \cup {<<FALSE, n, 0>> : n \in 1..MaxViolations}

mock_result(severity, outcome) ==
    [rule_id |-> "TEST-001",
     passed |-> outcome[1],
     violations |-> [i \in 1..outcome[2] |-> <<"Test violation">>],
     warnings |-> [i \in 1..outcome[3] |-> <<"Test warning">>],
     severity |-> severity]

\* mock_engine.validate_all.return_value
mock_validate_all(results) == [results |-> results, summary |-> Empty]

\* the test appends one more result to the list its mock returns
MockResult(severity, outcome) ==
    /\ op \in {"init", "mock"}
    /\ Len(arg) < MaxBatch
    /\ op' = "mock"
    /\ arg' = Append(arg, mock_result(severity, outcome))
    /\ UNCHANGED <<rules, dataset, response, history>>

GenerateSummaryCall ==
    /\ op \in {"init", "mock"}
    /\ op' = "_generate_summary"
    /\ response' = generate_summary(arg)
    /\ UNCHANGED <<rules, dataset, arg, history>>

DetectViolationsMockCall ==
    /\ op \in {"init", "mock"}
    /\ op' = "detect_violations"
    /\ response' = aggregate_violations(mock_validate_all(arg))
    /\ UNCHANGED <<rules, dataset, arg, history>>

NextBatch ==
    \/ \E severity \in Severities, outcome \in MockOutcomes : MockResult(severity, outcome)
    \/ GenerateSummaryCall
    \/ DetectViolationsMockCall

SpecBatch == Init /\ [][NextBatch]_vars

----------------------------------------------------------------------------
(* Calls on one engine from several threads, interleaved between the rules  *)
(* of the loops of validate_all and validate_by_category.  arg maps a       *)
(* caller to the locals of its call (data, category, results, the position  *)
(* of the loop in self.rules.items(), and the ids of the rules a validate   *)
(* was invoked on); response maps a caller to the value its call returned.  *)

Callers == {"A", "B"}

ThreadDatasets ==
    {failing_building_data, SetPath(sample_building_data, <<"building">>, NoneValue)}

ThreadCategories == {"Safety", "nonsense"}

Running(c) == c \in DOMAIN arg /\ c \notin DOMAIN response

\* a faulty engine: the results list is kept on the engine, and every call in
\* progress appends to it
results_append_shared(frames, c, rule_id, result) ==
    [k \in DOMAIN frames |->
        IF k = c
        THEN [frames[k] EXCEPT !.results = Append(@, result),
                               !.invoked = Append(@, rule_id)]
        ELSE [frames[k] EXCEPT !.results = Append(@, result)]]

\* results.append(...) on the list local to the call of c, after rule.validate(data)
results_append(frames, c, rule_id, result) ==
    [frames EXCEPT ![c].results = Append(@, result),
                   ![c].invoked = Append(@, rule_id)]

\* a faulty loop: the rule after a rule that raised is skipped
for_next_skip(position, result) ==
    IF Len(result.violations) = 1 /\ result.violations[1][1] = "Validation error: {}"
    THEN position + 2
    ELSE position + 1

\* the for loop moves to the next item of self.rules.items()
for_next(position, result) == position + 1

\* the call is entered: validate_by_category converts the category first and
\* returns the error payload for a value of no member
ThreadCall(c, method, category, d) ==
    /\ c \notin DOMAIN arg
    /\ op' = "call"
    /\ arg' = Put(arg, c, [method |-> method, category |-> category, data |-> d,
                           position |-> 1, results |-> << >>, invoked |-> << >>])
    /\ response' =
           IF method = "validate_by_category" /\ Lower(category) \notin Values(RuleCategory)
           THEN Put(response, c, except_ValueError(category, ValueError(Lower(category))))
           ELSE response
    /\ UNCHANGED <<rules, dataset, history>>

\* the body of the loop for an item the call applies to: rule.validate(data)
\* under the try/except, the append, and the move to the next item
loop_body(frames, c, item, result) ==
    [results_append(frames, c, item[1], result) EXCEPT ![c].position = for_next(@, result)]

\* one turn of the loop of the call of c, the category filter included
ThreadStep(c) ==
    /\ Running(c)
    /\ arg[c].position <= Len(rules)
    /\ op' = "step"
    /\ arg' =
           LET item == rules[arg[c].position]
           IN  IF \/ arg[c].method = "validate_all"
                  \/ item[2].category = RuleCategory_call(Lower(arg[c].category))
               THEN loop_body(arg, c, item, Evaluate(item[1], item[2], arg[c].data))
               ELSE [arg EXCEPT ![c].position = @ + 1]
    /\ UNCHANGED <<rules, dataset, response, history>>

\* the loop is over: the summary, the timestamp and the return
ThreadReturn(c, now) ==
    /\ Running(c)
    /\ arg[c].position > Len(rules)
    /\ op' = "return"
    /\ response' =
           Put(response, c,
               IF arg[c].method = "validate_all"
               THEN validate_all_return(arg[c].results, now)
               ELSE validate_by_category_return(arg[c].category, arg[c].results, now))
    /\ UNCHANGED <<rules, dataset, arg, history>>

NextThreads ==
    \/ \E c \in Callers, d \in ThreadDatasets : ThreadCall(c, "validate_all", "", d)
    \/ \E c \in Callers, category \in ThreadCategories, d \in ThreadDatasets :
           ThreadCall(c, "validate_by_category", category, d)
    \/ \E c \in Callers : ThreadStep(c)
    \/ \E c \in Callers, now \in 1..MaxClock : ThreadReturn(c, now)

\* ENABLED <<ThreadStep(c)>>_vars: a turn always moves the position
StepEnabled(c) == Running(c) /\ arg[c].position <= Len(rules)

\* ENABLED <<\E now \in 1..MaxClock : ThreadReturn(c, now)>>_vars
ReturnEnabled(c) == Running(c) /\ arg[c].position > Len(rules)

\* every thread that is in a call gets to run: weak fairness of the turn of the
\* loop and of the return of each caller, WF_vars(ThreadStep(c)) and
\* WF_vars(\E now \in 1..MaxClock : ThreadReturn(c, now)), written out with the
\* enabling conditions above
SpecThreads ==
    /\ Init
    /\ [][NextThreads]_vars
    /\ \A c \in Callers :
           /\ []<>(~StepEnabled(c)) \/ []<><<ThreadStep(c)>>_vars
           /\ \/ []<>(~ReturnEnabled(c))
              \/ []<><<\E now \in 1..MaxClock : ThreadReturn(c, now)>>_vars

----------------------------------------------------------------------------
(* The ramp helper and the ramp rule on one ramp: arg is the ramp a caller  *)
(* describes, dataset the submission that holds it as its only ramp.        *)

\* rises and runs in metres, held in hundredths
RampRises == {0, 30, 100, 833}

RampRuns == {0, 500, 1000, 10000}

\* the rise given in metres, in centimetres, or not at all; the run likewise
RiseFields ==
    {Empty} \cup {[rise_m |-> v] : v \in RampRises}
    \cup {[rise_cm |-> 100 * v] : v \in RampRises}

RunFields ==
    {Empty} \cup {[run_m |-> v] : v \in RampRuns}
    \cup {[run_cm |-> 100 * v] : v \in RampRuns}

RampInputs ==
    {rise @@ run @@ [width_cm |-> 12000, has_handrails |-> TRUE] :
        rise \in RiseFields, run \in RunFields}

RampInput(ramp_data) ==
    /\ op' = "ramp"
    /\ arg' = ramp_data
    /\ dataset' = [building |-> [accessibility |-> [ramps |-> <<ramp_data>>]]]
    /\ response' = Empty
    /\ UNCHANGED <<rules, history>>

VerifyRampSlopeCall ==
    /\ op # "init"
    /\ op' = "verify_ramp_slope"
    /\ response' = verify_ramp_slope(arg)
    /\ UNCHANGED <<rules, dataset, arg, history>>

AccRamp001ValidateCall ==
    /\ op # "init"
    /\ op' = "AccRamp001.validate"
    /\ response' = Evaluate("ACC-RAMP-001", get_rule(self, "ACC-RAMP-001"), dataset)
    /\ UNCHANGED <<rules, dataset, arg, history>>

NextRamp ==
    \/ \E ramp_data \in RampInputs : RampInput(ramp_data)
    \/ VerifyRampSlopeCall
    \/ AccRamp001ValidateCall

SpecRamp == Init /\ [][NextRamp]_vars

\* del d[path[1]]...[path[n]]: the submission with the field at path left out
RECURSIVE DelPath(_, _)
DelPath(d, path) ==
    IF ~IsDict(d) \/ path[1] \notin DOMAIN d THEN d
    ELSE IF Len(path) = 1 THEN [k \in DOMAIN d \ {path[1]} |-> d[k]]
    ELSE Put(d, path[1], DelPath(d[path[1]], Tail(path)))

\* the list each rule with an early exit for missing data looks for
early_exit_lists ==
    [c \in {"StrColumn003", "StrBeam004", "StrSlab005", "SafStair003", "AccDoor002",
            "AccRamp001"} |->
        CASE c = "StrColumn003" -> <<"structural", "columns">>
          [] c = "StrBeam004" -> <<"structural", "beams">>
          [] c = "StrSlab005" -> <<"structural", "slabs">>
          [] c = "SafStair003" -> <<"building", "safety", "stairways">>
          [] c = "AccDoor002" -> <<"building", "accessibility", "doors">>
          [] c = "AccRamp001" -> <<"building", "accessibility", "ramps">>]

\* d.get(path[1], {})...get(path[n], [])
RECURSIVE GetPath(_, _)
GetPath(d, path) ==
    IF Len(path) = 1 THEN Get(d, path[1], << >>)
    ELSE GetPath(Get(d, path[1], Empty), Tail(path))

----------------------------------------------------------------------------
(* One rule on the submissions that probe its thresholds: arg names the     *)
(* rule a test constructs, dataset is the submission the test builds for    *)
(* it, response the result of rule.validate(data) as the engine records it. *)

\* a field that is given with one of the values, or left out
Optional(key, values) == {Empty} \cup {[k \in {key} |-> v] : v \in values}

\* loads in kN/m2 and the seismic coefficient, held in hundredths
StrLoadInputs ==
    {[structural |-> dead @@ live @@ wind @@ seismic, building |-> use] :
        dead \in Optional("dead_load_kn_m2", {300, 350, 400}),
        live \in Optional("live_load_kn_m2", {150, 200, 250, 400, 500}),
        wind \in Optional("wind_load_kn_m2", {50, 60}),
        seismic \in Optional("seismic_coefficient", {9, 10}),
        use \in Optional("use_type", {"residential", "office", "commercial",
                                      "storage", "assembly", "hotel"})}

\* setbacks in metres, held in hundredths: the required map is missing, empty
\* or names north and south, with a requirement of 0 or of 3.0 m; so the actual map
ZonSetbackInputs ==
    {[plot |-> required, building |-> actual] :
        required \in {Empty}
            \cup {[required_setbacks |-> north @@ south] :
                     north \in Optional("north", {0, 300}),
                     south \in Optional("south", {0, 300})},
        actual \in {Empty}
            \cup {[setbacks |-> north @@ south] :
                     north \in Optional("north", {200, 300, 500}),
                     south \in Optional("south", {200, 500})}}

\* floor counts held in hundredths; the elevator section is missing, empty,
\* says there is none, says there is one and no more, or is the fixture's
AccElevInputs ==
    {[building |-> floors @@ accessibility] :
        floors \in Optional("num_floors", {0, 200, 300, 400, 600}),
        accessibility \in
            {Empty, [accessibility |-> Empty]}
            \cup {[accessibility |-> [elevator |-> elevator]] :
                     elevator \in
                         {Empty, [has_elevator |-> FALSE], [has_elevator |-> TRUE],
                          sample_building_data.building.accessibility.elevator,
                          [sample_building_data.building.accessibility.elevator
                               EXCEPT !.has_elevator = FALSE]}}}

\* the ramp of test_acc_ramp_001_steep_slope
\* One beam per submission, as in test_str_beam_004_short_height: the spans
\* whose minimum height is a whole number of centimetres (3.0, 4.44, 6.0 m)
\* and one where it is not (5.0 m), with heights below, at and above the
\* minimum and 1.1 times the minimum.
StrBeamInputs ==
    {[structural |->
          [beams |-> << [id |-> "Beam-1", width_cm |-> 2500,
                         height_cm |-> height_cm, span_m |-> span_m] >>]] :
        span_m \in {300, 444, 500, 600},
        height_cm \in {2400, 2500, 2700, 2750, 2800, 3600, 3700, 4000, 4070,
                       4100, 4200, 4500, 4600, 4900, 5000, 5400, 5500, 5600}}

\* The parking section of a building of 10 units (12 spaces required): missing,
\* empty, or with total_spaces and accessible_spaces present or not.
ZonParkingInputs ==
    {[building |-> [use_type |-> "residential", num_units |-> 1000] @@ parking] :
        parking \in {Empty} \cup
            {[parking |-> total @@ accessible] :
                total \in Optional("total_spaces", {0, 1000, 1200, 1900, 2000, 4000, 10000}),
                accessible \in Optional("accessible_spaces", {0, 100, 200, 500})}}

steep_slope_ramp ==
    [id |-> "Ramp-1", rise_m |-> 100, run_m |-> 1000, width_cm |-> 10000,
     run_length_m |-> 1000, has_landing |-> TRUE, has_handrails |-> TRUE]

\* the most items of a list a test builds
MaxItems == 2

\* the items the fixtures and the tests give for the list of a list-driven rule
ListItems(cls) ==
    LET given(d) == {GetPath(d, early_exit_lists[cls])[i] :
                        i \in 1..Len(GetPath(d, early_exit_lists[cls]))}
    IN  given(sample_building_data) \cup given(failing_building_data)
        \cup (IF cls = "AccRamp001" THEN {steep_slope_ramp} ELSE {})

\* the building has level changes, or has none
ListBases ==
    {sample_building_data,
     SetPath(sample_building_data, <<"building", "has_level_changes">>, FALSE)}

\* the list of the rule is missing, empty, or holds up to MaxItems items
ListInputs(cls) ==
    {DelPath(base, early_exit_lists[cls]) : base \in ListBases}
    \cup {SetPath(base, early_exit_lists[cls], items) :
            base \in ListBases,
            items \in UNION {[1..n -> ListItems(cls)] : n \in 0..MaxItems}}

\* the position of the class in the registration list
RuleIndex(cls) == (CHOOSE i \in 1..Len(rule_classes) : rule_classes[i].cls = cls)

\* a test constructs the rule and the submission
RuleInput(rule_id, d) ==
    /\ op = "init"
    /\ op' = "rule"
    /\ arg' = [rule_id |-> rule_id]
    /\ dataset' = d
    /\ response' = Empty
    /\ UNCHANGED <<rules, history>>

\* result = rule.validate(data)
RuleValidateCall ==
    /\ op = "rule"
    /\ op' = "rule.validate"
    /\ response' = Evaluate(arg.rule_id, get_rule(self, arg.rule_id), dataset)
    /\ UNCHANGED <<rules, dataset, arg, history>>

NextRules ==
    \/ \E d \in StrLoadInputs : RuleInput("STR-LOAD-001", d)
    \/ \E d \in ZonSetbackInputs : RuleInput("ZON-SETBACK-001", d)
    \/ \E d \in AccElevInputs : RuleInput("ACC-ELEV-003", d)
    \/ \E d \in StrBeamInputs : RuleInput("STR-BEAM-004", d)
    \/ \E d \in ZonParkingInputs : RuleInput("ZON-PARKING-005", d)
    \/ \E cls \in DOMAIN early_exit_lists :
           \E d \in ListInputs(cls) : RuleInput(rule_classes[RuleIndex(cls)].rule_id, d)
    \/ RuleValidateCall

SpecRules == Init /\ [][NextRules]_vars

----------------------------------------------------------------------------
(* The analysis service on the files of one submission: arg holds the        *)
(* results process_pdf returned so far and, once aggregate_results ran, the  *)
(* service that ran it; dataset is the data it built for the rules engine;   *)
(* response is the value the last call returned.                             *)

\* the most files of one submission
MaxFiles == 2

\* what extract_dimensions can yield for a file: every category a mapping of
\* non-negative numbers, as in test_aggregate_results_with_data and
\* test_build_validation_data
ExtractedDimensions ==
    {[setbacks |-> Empty, heights |-> Empty, areas |-> Empty, lengths |-> Empty],
     [setbacks |-> [north |-> 300], heights |-> Empty, areas |-> Empty,
      lengths |-> Empty],
     [setbacks |-> Empty, heights |-> [building |-> 1200], areas |-> Empty,
      lengths |-> Empty],
     [setbacks |-> Empty, heights |-> [floor |-> 300], areas |-> Empty,
      lengths |-> Empty],
     [setbacks |-> Empty, heights |-> Empty, areas |-> Empty,
      lengths |-> [width |-> 2500, raw_measurements |-> 100]],
     [setbacks |-> [north |-> 300, south |-> 350], heights |-> [building |-> 200],
      areas |-> [plot |-> 100000, total |-> 200000, built |-> 50000],
      lengths |-> Empty],
     [setbacks |-> [south |-> 350], areas |-> [building |-> 50000]]}

\* the results process_pdf returns, and the entry analyze_submission records
\* for a file that process_pdf raised on
FileResults ==
    {[file |-> "plan.pdf", status |-> "success",
      classification |-> [type |-> "TABA", confidence |-> 90],
      dimensions |-> dimensions] : dimensions \in ExtractedDimensions}
    \cup {[file |-> "plan.pdf", status |-> "success",
           dimensions_error |-> "extraction failed"],
          [file |-> "plan.pdf", status |-> "failed", error |-> "unreadable"]}

ProcessPdf(result) ==
    /\ op \in {"init", "process_pdf"}
    /\ Len(Get(arg, "results", << >>)) < MaxFiles
    /\ op' = "process_pdf"
    /\ arg' = [results |-> Append(Get(arg, "results", << >>), result)]
    /\ response' = result
    /\ UNCHANGED <<rules, dataset, history>>

AggregateResultsCall(rules_engine, now) ==
    /\ op \in {"init", "process_pdf"}
    /\ op' = "aggregate_results"
    /\ arg' = [results |-> Get(arg, "results", << >>),
               service |-> [rules_engine |-> rules_engine]]
    /\ response' = aggregate_results(arg'.service, arg'.results, now)
    /\ dataset' = IF IsDict(rules_engine) /\ any_values(response'.dimensions)
                  THEN build_validation_data(response'.dimensions)
                  ELSE dataset
    /\ UNCHANGED <<rules, history>>

NextService ==
    \/ \E result \in FileResults : ProcessPdf(result)
    \/ \E rules_engine \in {self, NoneValue}, now \in 1..MaxClock :
           AggregateResultsCall(rules_engine, now)

SpecService == Init /\ [][NextService]_vars

----------------------------------------------------------------------------
(* Properties *)

\* the response in hand lists results: validate_all answered, or
\* validate_by_category answered for a category it accepted
HasResults ==
    /\ op \in {"validate_all", "validate_by_category"}
    /\ "results" \in DOMAIN response

\* the registered rules the call in hand had to evaluate, in registration order
Evaluated ==
    IF op = "validate_all" THEN rule_classes
    ELSE SelectSeq(rule_classes,
                   LAMBDA rule : RuleCategory[rule.category] = Lower(arg.category))

IsSynthetic(result) ==
    /\ Len(result.violations) = 1
    /\ result.violations[1][1] = "Validation error: {}"

\* C1: every entry of the results returned by validate_all and
\* validate_by_category has passed true exactly when its violations list is
\* empty, be it a normal, an early-exit or a synthetic fault result.
C1_PassedIffNoViolations ==
    HasResults =>
        \A i \in 1..Len(response.results) :
            response.results[i].passed <=> (Len(response.results[i].violations) = 0)

\* validate_all answered with a synthetic fault result, an early-exit failure
\* without evidence, a passing result and a failing result with evidence
C1_Witness ==
    /\ op = "validate_all"
    /\ \E i \in 1..Len(response.results) : IsSynthetic(response.results[i])
    /\ \E i \in 1..Len(response.results) :
           /\ ~response.results[i].passed
           /\ ~IsSynthetic(response.results[i])
           /\ DOMAIN response.results[i].evidence = {}
    /\ \E i \in 1..Len(response.results) : response.results[i].passed
    /\ \E i \in 1..Len(response.results) :
           /\ ~response.results[i].passed
           /\ DOMAIN response.results[i].evidence # {}

\* C2: when the validate of a rule raises, the entry at the position of that
\* rule is the synthetic result: the rule_id of the rule, passed false, one
\* violation embedding the error text, no warnings, no evidence and severity
\* critical whatever severity the rule declares; every rule the call had to
\* evaluate still has its entry, so the batch is not aborted.
C2_FaultIsolated ==
    HasResults =>
        /\ Len(response.results) = Len(Evaluated)
        /\ \A i \in 1..Len(Evaluated) :
               /\ response.results[i].rule_id = Evaluated[i].rule_id
               /\ IsException(Validate(Evaluated[i], dataset)) =>
                      /\ response.results[i].passed = FALSE
                      /\ Len(response.results[i].violations) = 1
                      /\ response.results[i].violations[1] =
                             <<"Validation error: {}",
                               Validate(Evaluated[i], dataset).exception>>
                      /\ Len(response.results[i].warnings) = 0
                      /\ DOMAIN response.results[i].evidence = {}
                      /\ response.results[i].severity = "critical"

\* a rule that declares severity high raised, and a later rule was evaluated
\* and passed
C2_Witness ==
    /\ HasResults
    /\ \E i \in 1..Len(Evaluated) :
           /\ IsException(Validate(Evaluated[i], dataset))
           /\ Evaluated[i].severity = "HIGH"
           /\ IsSynthetic(response.results[i])
           /\ \E j \in (i + 1)..Len(Evaluated) : response.results[j].passed

\* C3: validate_all returns one result for each of the 20 registered rules, in
\* registration order: the i-th result carries the rule_id of the i-th
\* registered rule, for every dataset, the empty one and those that make
\* rules raise included.
C3_OneResultPerRule ==
    op = "validate_all" =>
        /\ Len(response.results) = 20
        /\ Len(rule_classes) = 20
        /\ \A i \in 1..Len(rule_classes) :
               response.results[i].rule_id = rule_classes[i].rule_id

\* validate_all answered for a dataset that makes one rule raise and another
\* fail early
C3_Witness ==
    /\ op = "validate_all"
    /\ Len(response.results) = 20
    /\ \E i \in 1..Len(response.results) : IsSynthetic(response.results[i])
    /\ \E i \in 1..Len(response.results) :
           ~response.results[i].passed /\ ~IsSynthetic(response.results[i])

FiveCategories == {"structural", "zoning", "safety", "accessibility", "environmental"}

IsErrorPayload ==
    /\ DOMAIN response = {"error", "valid_categories"}
    /\ response.valid_categories =
           <<"structural", "zoning", "safety", "accessibility", "environmental">>

\* C4, as the specification states it: for every category string that is not
\* one of the five identifiers, validate_by_category returns the payload with
\* error and valid_categories and evaluates no rule.
C4_AsStated ==
    (op = "validate_by_category" /\ arg.category \notin FiveCategories) =>
        IsErrorPayload

\* C4: for every category string whose lower-case form is not one of the five
\* identifiers, validate_by_category returns the payload with error and
\* valid_categories (the five identifiers), without results, and does not
\* raise; a category that differs from an identifier by case only is accepted.
C4_InvalidCategory ==
    /\ (op = "validate_by_category" /\ Lower(arg.category) \notin FiveCategories) =>
           IsErrorPayload
    /\ (op = "validate_by_category" /\ Lower(arg.category) \in FiveCategories) =>
           "results" \in DOMAIN response

\* validate_by_category answered the error payload for a category that is not
\* an identifier in any case
C4_Witness ==
    /\ op = "validate_by_category"
    /\ arg.category = "Invalid"
    /\ IsErrorPayload
    /\ response.error = <<"Invalid category: {}", "Invalid">>

CategorySizes ==
    [structural |-> 5, zoning |-> 5, safety |-> 5, accessibility |-> 3,
     environmental |-> 2]

\* C5: for a valid category validate_by_category returns the results of the
\* rules of that category and no other, in registration order, so that
\* summary.total_rules is 5 for structural, zoning and safety, 3 for
\* accessibility and 2 for environmental.
C5_CategoryResults ==
    (op = "validate_by_category" /\ "results" \in DOMAIN response) =>
        /\ Len(response.results) = Len(Evaluated)
        /\ \A i \in 1..Len(Evaluated) :
               response.results[i].rule_id = Evaluated[i].rule_id
        /\ response.summary.total_rules = CategorySizes[Lower(arg.category)]
        /\ response.summary.total_rules = Len(response.results)

\* validate_by_category answered for accessibility with its three rules, one
\* of them failing
C5_Witness ==
    /\ op = "validate_by_category"
    /\ arg.category = "accessibility"
    /\ "results" \in DOMAIN response
    /\ response.summary.total_rules = 3
    /\ response.summary.total_failed > 0
    /\ response.summary.total_passed > 0

\* the number of positions of a list that satisfy a condition
Count(results, Test(_)) == Cardinality({i \in 1..Len(results) : Test(results[i])})

\* C6: the summary of a result list is its reduction: total_rules is the
\* length of the list, total_passed + total_failed is total_rules,
\* total_violations and total_warnings are the sums of the lengths of the
\* violation and warning lists, and violations_by_severity[s] is the number of
\* failing results of severity s, not the number of their violation strings,
\* so that its values add up to total_failed.
C6_SummaryIsReduction ==
    op = "_generate_summary" =>
        LET failed(r) == ~r.passed
            passed(r) == r.passed
            violations_len(r) == Len(r.violations)
            warnings_len(r) == Len(r.warnings)
            failing_of(s) == {i \in 1..Len(arg) : ~arg[i].passed /\ arg[i].severity = s}
            by_severity == response.violations_by_severity
        IN  /\ response.total_rules = Len(arg)
            /\ response.total_passed = Count(arg, passed)
            /\ response.total_failed = Count(arg, failed)
            /\ response.total_passed + response.total_failed = response.total_rules
            /\ response.total_violations = Sum(violations_len, arg)
            /\ response.total_warnings = Sum(warnings_len, arg)
            /\ DOMAIN by_severity = {s \in Severities : failing_of(s) # {}}
            /\ \A s \in DOMAIN by_severity : by_severity[s] = Cardinality(failing_of(s))
            /\ Get(by_severity, "critical", 0) + Get(by_severity, "high", 0)
                   + Get(by_severity, "medium", 0) + Get(by_severity, "low", 0)
               = response.total_failed

\* the summary of a list in which a failing result carries two violations and
\* a passing result carries a warning
C6_Witness ==
    /\ op = "_generate_summary"
    /\ response.total_failed = 2
    /\ response.total_passed = 1
    /\ response.total_violations = 3
    /\ response.total_warnings = 1
    /\ DOMAIN response.violations_by_severity = {"critical", "low"}

\* C7: pass_rate_percent lies within [0, 100] and is defined for every result
\* list: it is total_passed / total_rules * 100 rounded to two decimals, and 0
\* for the empty list.
C7_PassRate ==
    op = "_generate_summary" =>
        LET passed(r) == r.passed
            total_rules == Len(arg)
            total_passed == Count(arg, passed)
            rate == response.pass_rate_percent
        IN  /\ rate >= 0
            /\ rate <= 10000
            /\ total_rules = 0 => rate = 0
            /\ total_rules > 0 =>
                   2 * Abs(rate * total_rules - total_passed * 10000) <= total_rules

\* the summary of a list of three results of which two pass: 66.67
C7_Witness ==
    /\ op = "_generate_summary"
    /\ Len(arg) = 3
    /\ response.total_passed = 2
    /\ response.pass_rate_percent = 6667

HasSummary ==
    /\ op \in {"validate_all", "validate_by_category"}
    /\ "summary" \in DOMAIN response

\* C8, as the specification states it: in every summary the engine produces
\* pass_rate_percent is 0 if and only if total_rules is 0.
C8_AsStated ==
    HasSummary =>
        (response.summary.pass_rate_percent = 0 <=> response.summary.total_rules = 0)

\* C8: in every summary the engine produces pass_rate_percent is 0 if and only
\* if no rule passed; total_rules is never 0 there, and the rate is 0 for a
\* batch in which every rule fails.
C8_ZeroRate ==
    HasSummary =>
        /\ response.summary.total_rules > 0
        /\ response.summary.pass_rate_percent = 0 <=> response.summary.total_passed = 0

\* the engine produced a summary of five rules that all fail: the rate is 0
C8_Witness ==
    /\ HasSummary
    /\ response.summary.total_rules = 5
    /\ response.summary.total_passed = 0
    /\ response.summary.pass_rate_percent = 0

Weight(severity) ==
    CASE severity = "critical" -> 100
      [] severity = "high" -> 75
      [] severity = "medium" -> 50
      [] severity = "low" -> 25

\* C10: the severity score of detect_violations is the sum, over every
\* violation string of every failing result, of the weight of the severity of
\* that result under critical 100, high 75, medium 50, low 25: one addend for
\* each violation, not for each rule.
C10_SeverityScore ==
    op = "detect_violations" =>
        LET addend(r) == IF r.passed THEN 0 ELSE Len(r.violations) * Weight(r.severity)
        IN  response.total_severity = Sum(addend, response.validation_results.results)

\* the score of a critical result with two violations and a high result with
\* one is 275
C10_Witness ==
    /\ op = "detect_violations"
    /\ LET results == response.validation_results.results
       IN  /\ Len(results) = 2
           /\ results[1].severity = "critical" /\ Len(results[1].violations) = 2
           /\ results[2].severity = "high" /\ Len(results[2].violations) = 1
           /\ ~results[1].passed /\ ~results[2].passed
           /\ response.total_severity = 275

\* C11: detect_violations sets has_critical_violations to true if and only if
\* at least one collected violation, that is one violation string of a failing
\* result, comes from a result of severity critical; otherwise it is false.
C11_HasCritical ==
    op = "detect_violations" =>
        LET results == response.validation_results.results
        IN  response.has_critical_violations <=>
                \E i \in 1..Len(results) :
                    /\ ~results[i].passed
                    /\ Len(results[i].violations) > 0
                    /\ results[i].severity = "critical"

\* violations were collected from a failing result of severity high only,
\* beside a passing critical result that lists a violation: the flag is false
C11_Witness ==
    /\ op = "detect_violations"
    /\ Len(response.violations) > 0
    /\ ~response.has_critical_violations
    /\ \E i \in 1..Len(response.validation_results.results) :
           /\ response.validation_results.results[i].severity = "critical"
           /\ response.validation_results.results[i].passed
           /\ Len(response.validation_results.results[i].violations) > 0

\* the mappings on the way to the field at path are mappings or absent
RECURSIVE HasPath(_, _)
HasPath(d, path) ==
    /\ IsDict(d)
    /\ Len(path) = 1 \/ path[1] \notin DOMAIN d \/ HasPath(d[path[1]], Tail(path))

\* numeric and boolean fields the rules read, each with its zero
FieldInputs ==
    {<<<<"structural", f>>, 0>> :
        f \in {"dead_load_kn_m2", "live_load_kn_m2", "wind_load_kn_m2",
               "seismic_coefficient"}}
    \cup {<<<<"structural", "foundation", f>>, 0>> :
        f \in {"bearing_capacity_kn_m2", "depth_m"}}
    \cup {<<<<"building", f>>, 0>> :
        f \in {"num_floors", "height_m", "footprint_m2", "total_floor_area_m2",
               "num_units", "max_occupancy"}}
    \cup {<<<<"building", f>>, FALSE>> : f \in {"has_level_changes", "has_roof_access"}}
    \cup {<<<<"building", "setbacks", f>>, 0>> : f \in {"north", "south", "front"}}
    \cup {<<<<"plot", f>>, 0>> :
        f \in {"area_m2", "max_height_m", "max_floors", "max_coverage_percent", "max_far"}}
    \cup {<<<<"building", "parking", f>>, 0>> : f \in {"total_spaces", "accessible_spaces"}}
    \cup {<<<<"building", "accessibility", "elevator", "has_elevator">>, FALSE>>}

\* C12 as stated: for every rule and every numeric or boolean field it reads,
\* the submission that leaves the field out gets the same ValidationResult as
\* the same submission with the field present and set to 0 / false
C12_AsStated ==
    op = "validate_all" =>
        \A field \in FieldInputs :
            HasPath(dataset, field[1]) =>
                \A i \in 1..Len(rules) :
                    Validate(rules[i][2], DelPath(dataset, field[1]))
                        = Validate(rules[i][2], SetPath(dataset, field[1], field[2]))

\* C13: validate_all on the empty mapping {} returns a summary with
\* total_rules = 20 and total_failed > 0, and no rule raises: no result is the
\* synthetic result of a caught exception.
C13_EmptyData ==
    (op = "validate_all" /\ dataset = Empty) =>
        /\ response.summary.total_rules = 20
        /\ response.summary.total_failed > 0
        /\ \A i \in 1..Len(response.results) : ~IsSynthetic(response.results[i])

\* validate_all({}) answered, with rules that pass and rules that fail
C13_Witness ==
    /\ op = "validate_all"
    /\ dataset = Empty
    /\ Len(response.results) = 20
    /\ response.summary.total_passed > 0
    /\ response.summary.total_failed > response.summary.total_passed

\* the rule leaves at its early exit: the list it looks for is missing or empty
TakesEarlyExit(rule, d) ==
    /\ rule.cls \in DOMAIN early_exit_lists
    /\ GetPath(d, early_exit_lists[rule.cls]) = << >>

\* C14 as stated: every ValidationResult produced by a rule carries a non-empty
\* evidence mapping, including on the early-failure paths
C14_AsStated ==
    op = "validate_all" =>
        \A i \in 1..Len(response.results) :
            ~IsSynthetic(response.results[i]) => response.results[i].evidence # Empty

\* C14: every ValidationResult produced by a rule carries an evidence mapping,
\* and the mapping is empty exactly when the rule left at its early exit for a
\* missing or empty list (columns, beams, slabs, stairways, doors, ramps); the
\* zero-plot-area exits record the plot area.
C14_EvidenceUnlessEarlyExit ==
    op = "validate_all" =>
        \A i \in 1..Len(response.results) :
            ~IsSynthetic(response.results[i]) =>
                /\ IsDict(response.results[i].evidence)
                /\ response.results[i].evidence = Empty
                       <=> TakesEarlyExit(rules[i][2], dataset)

\* validate_all answered with an early-exit result without evidence, a
\* zero-plot-area result recording the plot area and a full result with evidence
C14_Witness ==
    /\ op = "validate_all"
    /\ \E i \in 1..Len(response.results) :
           /\ response.results[i].violations = << <<"No column data provided">> >>
           /\ response.results[i].evidence = Empty
    /\ \E i \in 1..Len(response.results) :
           /\ response.results[i].violations = << <<"Plot area not provided">> >>
           /\ DOMAIN response.results[i].evidence = {"plot_area_m2"}
    /\ \E i \in 1..Len(response.results) :
           /\ ~TakesEarlyExit(rules[i][2], dataset)
           /\ response.results[i].evidence # Empty

\* the rules a call applies to, by id, in registration order
Applicable(frame) ==
    LET one(i, item) ==
            When(\/ frame.method = "validate_all"
                 \/ /\ Lower(frame.category) \in Values(RuleCategory)
                    /\ item[2].category = RuleCategory_call(Lower(frame.category)),
                 <<item[1]>>)
    IN  ForEach(one, RulesEngine.rules)

\* C15: a validate_all call that ran on the engine while another call was in
\* progress, interleaved with it between the rules, returns what the same call
\* returns when it runs alone on its own dataset; nothing of the other call's
\* dataset or results shows in it, nor in the results it has gathered at any
\* point of its loop.
C15_Isolated ==
    \A c \in Callers :
        (c \in DOMAIN arg /\ arg[c].method = "validate_all") =>
            /\ arg[c].results =
                   SubSeq(validate_all(RulesEngine, arg[c].data, 1).results,
                          1, arg[c].position - 1)
            /\ c \in DOMAIN response =>
                   response[c] =
                       validate_all(RulesEngine, arg[c].data, response[c].timestamp)

\* caller A has returned from validate_all on one dataset while caller B is in
\* the middle of the loop of validate_all on another dataset
C15_Witness ==
    /\ "A" \in DOMAIN response
    /\ Running("B")
    /\ arg["A"].method = "validate_all"
    /\ arg["B"].method = "validate_all"
    /\ arg["A"].data = failing_building_data
    /\ arg["B"].data = SetPath(sample_building_data, <<"building">>, NoneValue)
    /\ arg["B"].position > 5
    /\ arg["B"].position < 15

\* C17: every validate_all and validate_by_category call that was entered
\* eventually returns, and by then a validate was invoked on each rule the call
\* applies to exactly once, in registration order, also when rules raise.
C17_Terminates ==
    \A c \in Callers :
        (c \in DOMAIN arg) ~>
            (c \in DOMAIN response /\ arg[c].invoked = Applicable(arg[c]))

\* both calls have returned: a validate_all in which rules raised, and a
\* validate_by_category that invoked the rules of its category only
C17_Witness ==
    /\ Callers \subseteq DOMAIN response
    /\ arg["A"].method = "validate_all"
    /\ \E i \in 1..Len(response["A"].results) : IsSynthetic(response["A"].results[i])
    /\ Len(arg["A"].invoked) = 20
    /\ arg["B"].method = "validate_by_category"
    /\ Len(arg["B"].invoked) = 5

\* C16: after any sequence of validate_all, validate_by_category, get_rule and
\* get_summary calls, on any datasets, those that make rules raise included,
\* the catalog of the engine still holds the same 20 rules in registration
\* order, each with its rule_id, category and severity unchanged.
C16_CatalogUnchanged ==
    /\ Len(rules) = 20
    /\ \A i \in 1..Len(rules) :
           /\ rules[i][1] = rule_classes[i].rule_id
           /\ rules[i][2].rule_id = rule_classes[i].rule_id
           /\ rules[i][2].category = rule_classes[i].category
           /\ rules[i][2].severity = rule_classes[i].severity

\* a second validate_all in a row has answered for a dataset that makes every
\* rule raise, and the catalog is the registered one
C16_Witness ==
    /\ op = "validate_all"
    /\ dataset = NoneValue
    /\ Len(history) = MaxHistory
    /\ \A i \in 1..Len(response.results) : IsSynthetic(response.results[i])
    /\ rules = load_rules

\* C18: get_summary returns the metadata of the catalog whatever dataset was
\* submitted and whatever calls came before: total_rules is 20,
\* rules_by_category is structural 5, zoning 5, safety 5, accessibility 3,
\* environmental 2, the counts of rules_by_severity add up to 20 with at least
\* 15 critical, and rules_list holds the 20 rules in registration order.
C18_Summary ==
    op = "get_summary" =>
        /\ response.total_rules = 20
        /\ response.rules_by_category = CategorySizes
        /\ Get(response.rules_by_severity, "critical", 0)
               + Get(response.rules_by_severity, "high", 0)
               + Get(response.rules_by_severity, "medium", 0)
               + Get(response.rules_by_severity, "low", 0) = 20
        /\ DOMAIN response.rules_by_severity \subseteq Severities
        /\ Get(response.rules_by_severity, "critical", 0) >= 15
        /\ response.rules_list =
               [i \in 1..20 |-> BuildingRule_to_dict(rule_classes[i])]

\* get_summary answered while a dataset that fails rules is in hand
C18_Witness ==
    /\ op = "get_summary"
    /\ dataset = failing_building_data
    /\ response.rules_by_severity = [critical |-> 16, high |-> 3, medium |-> 1]
    /\ response.rules_list[20].rule_id = "ENV-NOISE-002"

\* the dataset in hand is a mapping whose plot is a mapping or missing, with
\* plot.area_m2 0 or missing
NoPlotArea ==
    /\ IsDict(dataset)
    /\ IsDict(Get(dataset, "plot", Empty))
    /\ Get(Get(dataset, "plot", Empty), "area_m2", 0) = 0

\* C19: when plot.area_m2 is 0 or missing, ZonCoverage003 and ZonFar004 each
\* fail at once with the single violation 'Plot area not provided'; no division
\* is attempted, so neither raises, and the evidence has neither
\* coverage_percent nor far.
C19_NoPlotArea ==
    (HasResults /\ NoPlotArea) =>
        \A i \in 1..Len(response.results) :
            response.results[i].rule_id \in {"ZON-COVERAGE-003", "ZON-FAR-004"} =>
                /\ ~response.results[i].passed
                /\ response.results[i].violations = << <<"Plot area not provided">> >>
                /\ response.results[i].warnings = << >>
                /\ "coverage_percent" \notin DOMAIN response.results[i].evidence
                /\ "far" \notin DOMAIN response.results[i].evidence

\* validate_all answered for the dataset of test_zero_values, whose plot area
\* is present and 0, with the results of both rules
C19_Witness ==
    /\ op = "validate_all"
    /\ dataset = zero_values_data
    /\ NoPlotArea
    /\ \E i, j \in 1..Len(response.results) :
           /\ response.results[i].rule_id = "ZON-COVERAGE-003"
           /\ response.results[j].rule_id = "ZON-FAR-004"
           /\ response.results[i].evidence = [plot_area_m2 |-> 0]
           /\ response.results[j].violations = << <<"Plot area not provided">> >>

\* the rise and the run of a ramp in centimetres: a value in metres is taken
\* first, a value in centimetres otherwise, 0 when neither is given
RiseCm(ramp_data) ==
    IF "rise_m" \in DOMAIN ramp_data THEN ramp_data.rise_m
    ELSE Get(ramp_data, "rise_cm", 0) \div 100

RunCm(ramp_data) ==
    IF "run_m" \in DOMAIN ramp_data THEN ramp_data.run_m
    ELSE Get(ramp_data, "run_cm", 0) \div 100

SlopeViolation(result) ==
    \E i \in 1..Len(result.violations) :
        result.violations[i][1]
            = "{}: Slope {:.2f}% exceeds maximum {}% (Israeli accessibility law)"

\* C20: verify_ramp_slope returns rise / run * 100 for a rise and a run given
\* in metres or in centimetres, and 100 when the run is 0; AccRamp001 lists a
\* 'Slope' violation exactly when that slope exceeds 8.33: 1.0 m over 10.0 m
\* gives 10 and a violation, 0.3 m over 5.0 m gives 6 and none.
C20_RampSlope ==
    /\ op = "verify_ramp_slope" =>
           IF RunCm(arg) = 0 THEN response = <<100, 1>>
           ELSE /\ response[2] > 0
                /\ response[1] * RunCm(arg) = 100 * RiseCm(arg) * response[2]
    /\ op = "AccRamp001.validate" =>
           /\ response.evidence["Ramp-1_slope_percent"] = verify_ramp_slope(arg)
           /\ SlopeViolation(response) <=>
                  (RunCm(arg) = 0 \/ 100 * 100 * RiseCm(arg) > 833 * RunCm(arg))
           /\ (RiseCm(arg) = 100 /\ RunCm(arg) = 1000) =>
                  /\ response.evidence["Ramp-1_slope_percent"] = <<10, 1>>
                  /\ ~response.passed
           /\ (RiseCm(arg) = 30 /\ RunCm(arg) = 500) =>
                  /\ response.evidence["Ramp-1_slope_percent"] = <<6, 1>>
                  /\ response.passed

\* the rule answered for a ramp of 8.33 m over 100 m, given in centimetres:
\* the slope is 8.33 and no 'Slope' violation is listed
C20_Witness ==
    /\ op = "AccRamp001.validate"
    /\ "rise_cm" \in DOMAIN arg
    /\ "run_cm" \in DOMAIN arg
    /\ response.evidence["Ramp-1_slope_percent"] = <<833, 100>>
    /\ ~SlopeViolation(response)

\* rule.validate answered for the rule in hand
Validated(rule_id) == op = "rule.validate" /\ arg.rule_id = rule_id

\* a violation of the result is built from the template
HasViolation(result, template) ==
    \E i \in 1..Len(result.violations) : result.violations[i][1] = template

HasWarning(result, template) ==
    \E i \in 1..Len(result.warnings) : result.warnings[i][1] = template

\* the least live load for a use type, in hundredths of kN/m2
MinLiveLoad(use_type) ==
    CASE use_type = "residential" -> 200
      [] use_type = "office" -> 250
      [] use_type = "commercial" -> 400
      [] use_type = "storage" -> 500
      [] use_type = "assembly" -> 500
      [] OTHER -> 200

\* C21: StrLoad001 lists a 'Dead load' violation whenever dead_load_kn_m2 is
\* below 3.5, and passes with no violations exactly when the dead load is at
\* least 3.5, the live load at least the minimum of the use type (residential
\* 2.0, office 2.5, commercial 4.0, storage 5.0, assembly 5.0, any other 2.0),
\* the wind load at least 0.6 and the seismic coefficient at least 0.1.
C21_Loads ==
    Validated("STR-LOAD-001") =>
        LET structural == Get(dataset, "structural", Empty)
            dead == Get(structural, "dead_load_kn_m2", 0)
            live == Get(structural, "live_load_kn_m2", 0)
            wind == Get(structural, "wind_load_kn_m2", 0)
            seismic == Get(structural, "seismic_coefficient", 0)
            use == Get(Get(dataset, "building", Empty), "use_type", "residential")
        IN  /\ dead < 350 =>
                   HasViolation(response,
                       "Dead load {} kN/m2 is below minimum 3.5 kN/m2 (SI 413)")
            /\ (response.passed /\ response.violations = << >>)
                   <=> /\ dead >= 350
                       /\ live >= MinLiveLoad(use)
                       /\ wind >= 60
                       /\ seismic >= 10

\* the rule answered for a dead load of 3.0 with the other loads at their
\* minimum for a commercial building: the one violation is the dead load
C21_Witness ==
    /\ Validated("STR-LOAD-001")
    /\ dataset.structural = [dead_load_kn_m2 |-> 300, live_load_kn_m2 |-> 400,
                             wind_load_kn_m2 |-> 60, seismic_coefficient |-> 10]
    /\ dataset.building = [use_type |-> "commercial"]
    /\ ~response.passed
    /\ Len(response.violations) = 1

\* the list-driven rule under test, and the list the submission gives it
ListRule == CHOOSE cls \in DOMAIN early_exit_lists :
                rule_classes[RuleIndex(cls)].rule_id = arg.rule_id

ListValidated ==
    /\ op = "rule.validate"
    /\ \E cls \in DOMAIN early_exit_lists :
           rule_classes[RuleIndex(cls)].rule_id = arg.rule_id

NoDataMessage ==
    [StrColumn003 |-> "No column data provided",
     StrBeam004 |-> "No beam data provided",
     StrSlab005 |-> "No slab data provided",
     SafStair003 |-> "No stairway data provided",
     AccDoor002 |-> "No accessible door data provided",
     AccRamp001 |-> "No ramp data provided"]

\* the violations of the rule on the submission whose list holds items[1..n]
\* one at a time, in item order
RECURSIVE PerItemViolations(_, _, _)
PerItemViolations(cls, items, n) ==
    IF n = 0 THEN << >>
    ELSE PerItemViolations(cls, items, n - 1)
         \o Validate(rule_classes[RuleIndex(cls)],
                     SetPath(dataset, early_exit_lists[cls], <<items[n]>>)).violations

\* with a non-empty list every item is checked and the violations of all items
\* follow one another in item order
Accumulates ==
    LET items == GetPath(dataset, early_exit_lists[ListRule])
    IN  items # << >> =>
            response.violations = PerItemViolations(ListRule, items, Len(items))

\* C22 as stated: every list-driven rule, the ramp rule included, fails at once
\* with the single violation 'No X data provided' on a missing or empty list
C22_AsStated ==
    ListValidated =>
        /\ GetPath(dataset, early_exit_lists[ListRule]) = << >> =>
               /\ ~response.passed
               /\ response.violations = << <<NoDataMessage[ListRule]>> >>
        /\ Accumulates

\* C22: on a missing or empty list the column, beam, slab, stairway and door
\* rules fail at once with the single violation 'No X data provided' and no
\* per-item evidence; the ramp rule passes without a violation when the
\* building has no level changes and fails with the single violation 'Ramp
\* required for level changes' when it has.  On a non-empty list every item is
\* checked and the violations of all items accumulate in item order.
C22_Lists ==
    ListValidated =>
        /\ GetPath(dataset, early_exit_lists[ListRule]) = << >> =>
               /\ response.evidence = Empty
               /\ response.warnings = << >>
               /\ IF ListRule # "AccRamp001"
                  THEN /\ ~response.passed
                       /\ response.violations = << <<NoDataMessage[ListRule]>> >>
                  ELSE IF Get(dataset.building, "has_level_changes", FALSE)
                  THEN /\ ~response.passed
                       /\ response.violations =
                              << <<"Ramp required for level changes (Israeli accessibility law)">> >>
                  ELSE /\ response.passed
                       /\ response.violations = << >>
        /\ Accumulates

\* the column rule answered for two columns that both fail: the violations of
\* the first column come first, those of the second follow
C22_Witness ==
    /\ Validated("STR-COLUMN-003")
    /\ Len(GetPath(dataset, <<"structural", "columns">>)) = 2
    /\ Len(response.violations) = 4
    /\ response.violations[1][1] = response.violations[3][1]
    /\ response.violations[2][1] = response.violations[4][1]

\* C23: ZonSetback001 applies the default minimum (a violation when the
\* smallest actual setback, 0 when none is given, is below 3.0 m) only when no
\* required_setbacks map is supplied, absent or empty; with a non-empty map,
\* even one whose entries are all 0, the default is never applied and only a
\* direction with a requirement above 0 can give a violation.
C23_DefaultMinimum ==
    Validated("ZON-SETBACK-001") =>
        LET required == Get(Get(dataset, "plot", Empty), "required_setbacks", Empty)
            actual == Get(Get(dataset, "building", Empty), "setbacks", Empty)
            smallest == IF actual = Empty THEN 0
                        ELSE CHOOSE v \in Values(actual) : \A w \in Values(actual) : v <= w
            default == "Minimum setback {}m is below default minimum {}m"
        IN  /\ HasViolation(response, default) <=> (required = Empty /\ smallest < 300)
            /\ required # Empty =>
                   \A i \in 1..Len(response.violations) :
                       \E direction \in DOMAIN required :
                           /\ response.violations[i][2] = Capitalize[direction]
                           /\ required[direction] > 0
                           /\ Get(actual, direction, 0) < required[direction]

\* the rule answered for a required map whose entries are all 0 and an actual
\* setback of 2.0 m: the default minimum is not applied and the rule passes
C23_Witness ==
    /\ Validated("ZON-SETBACK-001")
    /\ dataset.plot = [required_setbacks |-> [north |-> 0, south |-> 0]]
    /\ dataset.building = [setbacks |-> [north |-> 200]]
    /\ response.passed
    /\ response.violations = << >>

\* C24: AccElev003 lists the 'Elevator required' violation exactly when
\* num_floors is above 3 and has_elevator is false; with num_floors at most 3
\* and has_elevator false the rule passes with no violations, no warnings and
\* evidence holding num_floors and has_elevator only.
C24_ElevatorRequired ==
    Validated("ACC-ELEV-003") =>
        LET building == Get(dataset, "building", Empty)
            num_floors == Get(building, "num_floors", 0)
            has_elevator ==
                Get(Get(Get(building, "accessibility", Empty), "elevator", Empty),
                    "has_elevator", FALSE)
        IN  /\ HasViolation(response,
                   "Elevator required for building with {} floors (>3) (Israeli accessibility law)")
                   <=> (num_floors > 300 /\ ~has_elevator)
            /\ (num_floors <= 300 /\ ~has_elevator) =>
                   /\ response.passed
                   /\ response.violations = << >>
                   /\ response.warnings = << >>
                   /\ response.evidence =
                          [num_floors |-> num_floors, has_elevator |-> FALSE]

\* the rule answered for 3 floors and an elevator section that describes a
\* car but says there is no elevator: it passes on the two-entry evidence
C24_Witness ==
    /\ Validated("ACC-ELEV-003")
    /\ "num_floors" \in DOMAIN dataset.building
    /\ dataset.building.num_floors = 300
    /\ GetPath(dataset, <<"building", "accessibility", "elevator">>)
           = [sample_building_data.building.accessibility.elevator
                  EXCEPT !.has_elevator = FALSE]
    /\ response.passed
    /\ DOMAIN response.evidence = {"num_floors", "has_elevator"}

\* C25: for the one beam of a submission StrBeam004 takes the minimum height
\* span_m * 100 / 12 cm; it lists the height violation exactly when height_cm
\* is below that minimum, it lists the 'is minimal' warning and no height
\* violation exactly when the minimum <= height_cm < 1.1 times the minimum,
\* and it never lists both for the beam.
C25_AsStated ==
    (Validated("STR-BEAM-004") /\ dataset \in StrBeamInputs) =>
        LET beam == dataset.structural.beams[1]
            height == Num(beam.height_cm)
            min_height_cm == QDiv(QMul(Num(beam.span_m), <<100, 1>>), <<12, 1>>)
            margin == QMul(min_height_cm, <<11, 10>>)
            violation ==
                HasViolation(response,
                    "{}: Height {}cm is below minimum {:.1f}cm for span {}m (h >= span/12, SI 466)")
            warning ==
                HasWarning(response,
                    "{}: Height {}cm is minimal for span {}m, recommend >={:.1f}cm")
        IN  /\ violation <=> QLess(height, min_height_cm)
            /\ warning <=> (~QLess(height, min_height_cm) /\ QLess(height, margin))
            /\ ~(violation /\ warning)

\* the category value of the registered rule a result belongs to
CategoryOf(result) == RuleCategory[get_rule(self, result.rule_id).category]

\* the subsequence of a result list whose rules belong to a category
InCategory(results, category) ==
    SelectSeq(results, LAMBDA result : CategoryOf(result) = category)

\* the results lists validate_by_category returns for the five identifiers
CategoryParts ==
    [category \in FiveCategories |->
         validate_by_category(self, category, dataset, 1).results]

\* every entry of a list is an entry of exactly one of the parts, and the parts
\* have no other entries
Partition(all, parts) ==
    /\ \A i \in 1..Len(all) :
           Cardinality({category \in DOMAIN parts :
                           \E j \in 1..Len(parts[category]) :
                               parts[category][j] = all[i]}) = 1
    /\ \A category \in DOMAIN parts :
           \A j \in 1..Len(parts[category]) :
               \E i \in 1..Len(all) : all[i] = parts[category][j]
    /\ Len(parts.structural) + Len(parts.zoning) + Len(parts.safety)
           + Len(parts.accessibility) + Len(parts.environmental) = Len(all)

SubsequenceOf(all) ==
    /\ response.results = InCategory(all, Lower(arg.category))
    /\ Len(all) = 20
    /\ Partition(all, CategoryParts)

\* C26: for every dataset and valid category the results validate_by_category
\* returns are the subsequence of the results validate_all returns for the same
\* dataset whose rules belong to the category, and the lists of the five
\* categories partition the 20 results of validate_all.
C26_Subsequence ==
    (op = "validate_by_category" /\ "results" \in DOMAIN response) =>
        SubsequenceOf(validate_all(self, dataset, 1).results)

\* validate_by_category answered 'STRUCTURAL' for a submission on which one
\* structural rule raises and the others do not
C26_Witness ==
    /\ op = "validate_by_category"
    /\ arg.category = "STRUCTURAL"
    /\ "results" \in DOMAIN response
    /\ \E i \in 1..Len(response.results) : IsSynthetic(response.results[i])
    /\ \E i \in 1..Len(response.results) : ~IsSynthetic(response.results[i])

\* C27: on the output of a real engine detect_violations agrees with the
\* summary of validate_all: it collects summary.total_violations violation
\* entries, passed holds exactly when summary.total_failed is 0, and
\* has_critical_violations holds exactly when violations_by_severity counts a
\* critical rule.
C27_AgreesWithSummary ==
    op = "detect_violations" =>
        LET summary == response.validation_results.summary
        IN  /\ Len(response.violations) = summary.total_violations
            /\ response.passed <=> summary.total_failed = 0
            /\ response.has_critical_violations
                   <=> Get(summary.violations_by_severity, "critical", 0) > 0

\* detect_violations answered for a submission on which critical rules fail
\* and some failing rule lists several violations
C27_Witness ==
    /\ op = "detect_violations"
    /\ ~response.passed
    /\ response.has_critical_violations
    /\ Len(response.violations) > response.validation_results.summary.total_failed
    /\ response.validation_results.summary.total_passed > 0

\* the rule ids of the results with the given passed flag
RuleIds(results, passed) ==
    {results[i].rule_id : i \in {j \in 1..Len(results) : results[j].passed = passed}}

\* C28: on the empty mapping {} exactly 13 rules fail and 7 pass: the failing
\* ones are STR-LOAD-001, STR-FOUND-002, STR-COLUMN-003, STR-BEAM-004,
\* STR-SLAB-005, ZON-SETBACK-001, ZON-COVERAGE-003, ZON-FAR-004,
\* ZON-PARKING-005, SAF-FIRE-001, SAF-EVAC-002, SAF-STAIR-003 and ACC-DOOR-002,
\* the passing ones ZON-HEIGHT-002, SAF-RAIL-004, SAF-LIGHT-005, ACC-RAMP-001,
\* ACC-ELEV-003, ENV-ENERGY-001 and ENV-NOISE-002.
C28_EmptyOutcome ==
    (op = "validate_all" /\ dataset = Empty) =>
        /\ Len(response.results) = 20
        /\ response.summary.total_failed = 13
        /\ response.summary.total_passed = 7
        /\ RuleIds(response.results, FALSE) =
               {"STR-LOAD-001", "STR-FOUND-002", "STR-COLUMN-003", "STR-BEAM-004",
                "STR-SLAB-005", "ZON-SETBACK-001", "ZON-COVERAGE-003", "ZON-FAR-004",
                "ZON-PARKING-005", "SAF-FIRE-001", "SAF-EVAC-002", "SAF-STAIR-003",
                "ACC-DOOR-002"}
        /\ RuleIds(response.results, TRUE) =
               {"ZON-HEIGHT-002", "SAF-RAIL-004", "SAF-LIGHT-005", "ACC-RAMP-001",
                "ACC-ELEV-003", "ENV-ENERGY-001", "ENV-NOISE-002"}

\* validate_all({}) answered with ACC-RAMP-001 passing and ACC-DOOR-002 failing
C28_Witness ==
    /\ op = "validate_all"
    /\ dataset = Empty
    /\ "ACC-RAMP-001" \in RuleIds(response.results, TRUE)
    /\ "ACC-DOOR-002" \in RuleIds(response.results, FALSE)

\* C29: ZonParking005 never passes when accessible_spaces is 0 or missing:
\* the minimum is max(1, floor of 5% of the provided spaces), at least one
\* space, so the accessible-spaces violation is listed.
C29_AccessibleSpaces ==
    Validated("ZON-PARKING-005") =>
        LET parking_data == Get(Get(dataset, "building", Empty), "parking", Empty)
            provided_spaces == Get(parking_data, "total_spaces", 0)
            floor_5_percent == 100 * ((provided_spaces * 5) \div 10000)
        IN  /\ response.evidence.min_accessible_spaces
                   = (IF floor_5_percent > 100 THEN floor_5_percent ELSE 100)
            /\ response.evidence.min_accessible_spaces >= 100
            /\ Get(parking_data, "accessible_spaces", 0) = 0 =>
                   /\ ~response.passed
                   /\ HasViolation(response,
                          "Accessible parking spaces {} below minimum {} (5% of total, minimum 1)")

\* the rule answered for 12 provided spaces, as many as required, and no
\* accessible_spaces entry: the accessible-spaces violation is its only one
C29_Witness ==
    /\ Validated("ZON-PARKING-005")
    /\ dataset.building = [use_type |-> "residential", num_units |-> 1000,
                           parking |-> [total_spaces |-> 1200]]
    /\ ~response.passed
    /\ response.violations =
           << <<"Accessible parking spaces {} below minimum {} (5% of total, minimum 1)",
                0, 100>> >>

\* aggregate_results ran the validation: the service has a rules engine and
\* some category of the merged dimensions has data
RanValidation ==
    /\ op = "aggregate_results"
    /\ IsDict(arg.service.rules_engine)
    /\ \E category \in DimensionCategories : response.dimensions[category] # Empty

\* C30: whenever aggregate_results runs the validation (the service has a
\* rules engine and at least one dimension was extracted) the outcome is not a
\* pass: the data built for the engine has empty columns, beams and slabs
\* lists, so passed is false and has_critical_violations is true.
C30_NeverPasses ==
    RanValidation =>
        /\ response.validation # Empty
        /\ dataset.structural = [columns |-> << >>, beams |-> << >>, slabs |-> << >>]
        /\ "error" \notin DOMAIN response.validation
        /\ response.validation.passed = FALSE
        /\ response.validation.has_critical_violations = TRUE
        /\ response.violations = response.validation.violations
        /\ \E i \in 1..Len(response.violations) :
               /\ response.violations[i].rule_id = "STR-COLUMN-003"
               /\ response.violations[i].severity = "critical"
               /\ response.violations[i].message = <<"No column data provided">>

\* aggregate_results validated the dimensions of two files, of which only the
\* first gave a setback
C30_Witness ==
    /\ RanValidation
    /\ Len(arg.results) = 2
    /\ response.dimensions =
           [setbacks |-> [north |-> 300], heights |-> Empty, areas |-> Empty,
            lengths |-> Empty]
    /\ ~response.validation.passed
    /\ response.metadata = [total_files |-> 2, successful_files |-> 1]

====
